---- MODULE Spec2Model ----
(***************************************************************************)
(* fetchkit: URL validation and fetcher dispatch (FetcherRegistry), the    *)
(* generic HTTP fetcher (DefaultFetcher) with its bounded body reader      *)
(* (read_body_with_timeout), and the response it assembles.                *)
(*                                                                         *)
(* A Rust String is a sequence of one-character strings, a byte buffer a   *)
(* sequence of byte tokens, Option<T> a sequence of length 0 or 1.         *)
(***************************************************************************)
EXTENDS Integers, Sequences, FiniteSets, TLC

VARIABLES
    entry,          \* the public function the caller invoked
    request,        \* FetchRequest
    options,        \* FetchOptions
    server,         \* what the remote end does for this request (an input)
    fetchers,       \* FetcherRegistry.fetchers
    pc,             \* position of the request's task
    parsed_url,     \* Option<Url>: parsed_url of FetcherRegistry::fetch
    matchesCalled,  \* registry indices whose matches() was invoked, in order
    fetchCalled,    \* registry indices whose fetch() was invoked, in order
    httpSent,       \* URLs an HTTP request was issued to, in order
    fetcherResult,  \* what the fetcher's fetch() returned
    outcome,        \* what the entry point returned
    now,            \* the clock, in seconds
    clientDeadline, \* Option: expiry of the reqwest client's .timeout()
    deadline,       \* Option: `deadline` of read_body_with_timeout
    stream,         \* chunks the byte stream has not yet yielded
    ready,          \* the stream's next item is ready to be polled
    body,           \* `body` of read_body_with_timeout
    consumed,       \* the chunks the loop took from the stream, in order
    readerOut,      \* Option: the (Bytes, bool) read_body_with_timeout returned
    args,           \* Option: the arguments of a direct call of a webfetch function
    returned,       \* Option: what that call returned
    stdin,          \* the items stdin.lock().lines() yields to run_server
    cursor,         \* how many of them run_server has taken
    current,        \* Option<JsonRpcRequest>: the request whose tool call is awaited
    stdout,         \* the responses run_server wrote, in order
    stderr,         \* what run_server printed with eprintln!, in order
    callbacks       \* the ToolStatus values passed to status_callback, in order

inputVars == <<entry, request, options, server>>
callVars == <<args, returned>>
adapterVars == <<stdin, cursor, current, stdout, stderr, callbacks>>
regVars == <<fetchers, parsed_url, matchesCalled, fetchCalled>>
readerVars == <<deadline, stream, ready, body, consumed, readerOut>>
vars == <<entry, request, options, server, fetchers, pc, parsed_url,
          matchesCalled, fetchCalled, httpSent, fetcherResult, outcome, now,
          clientDeadline, deadline, stream, ready, body, consumed, readerOut,
          args, returned, stdin, cursor, current, stdout, stderr, callbacks>>

-----------------------------------------------------------------------------
(* Option and string primitives of the Rust standard library.              *)

None == <<>>
Some(x) == <<x>>
IsSome(o) == o # <<>>
Unwrap(o) == o[1]

MinOf(S) == CHOOSE x \in S : \A y \in S : x <= y
MaxOf(S) == CHOOSE x \in S : \A y \in S : y <= x

is_empty(s) == Len(s) = 0

starts_with(s, p) == Len(p) <= Len(s) /\ SubSeq(s, 1, Len(p)) = p

ends_with(s, p) == Len(p) <= Len(s) /\ SubSeq(s, Len(s) - Len(p) + 1, Len(s)) = p

contains(s, p) == \E i \in 1..(Len(s) - Len(p) + 1) : SubSeq(s, i, i + Len(p) - 1) = p

\* str::find(pat): index of the first match, 0 when there is none
find(s, p) ==
    LET hits == {i \in 1..(Len(s) - Len(p) + 1) : SubSeq(s, i, i + Len(p) - 1) = p}
    IN  IF hits = {} THEN 0 ELSE MinOf(hits)

\* index of the first (last) character of s that lies in cs, 0 when none
find_char(s, cs) ==
    LET hits == {i \in 1..Len(s) : s[i] \in cs}
    IN  IF hits = {} THEN 0 ELSE MinOf(hits)

rfind_char(s, cs) ==
    LET hits == {i \in 1..Len(s) : s[i] \in cs}
    IN  IF hits = {} THEN 0 ELSE MaxOf(hits)

Upper == <<"A", "B", "C", "D", "E", "F", "G", "H", "I", "J", "K", "L", "M",
           "N", "O", "P", "Q", "R", "S", "T", "U", "V", "W", "X", "Y", "Z">>
Lower == <<"a", "b", "c", "d", "e", "f", "g", "h", "i", "j", "k", "l", "m",
           "n", "o", "p", "q", "r", "s", "t", "u", "v", "w", "x", "y", "z">>

UpperCase == {Upper[i] : i \in 1..Len(Upper)}

\* char::to_lowercase of a character whose lowercase is one character; the
\* Kelvin sign U+212A ("U+8490") becomes "k"
lower_char(c) ==
    IF c \in UpperCase
    THEN Lower[CHOOSE i \in 1..Len(Upper) : Upper[i] = c]
    ELSE IF c = "U+8490" THEN "k"
    ELSE c

Whitespace == {" ", "\n", "\t", "\r"}

is_whitespace(c) == c \in Whitespace

\* str::split(sep): the pieces between occurrences of the character sep
RECURSIVE split(_, _)
split(s, sep) ==
    LET i == find_char(s, {sep})
    IN  IF i = 0 THEN <<s>>
        ELSE <<SubSeq(s, 1, i - 1)>> \o split(SubSeq(s, i + 1, Len(s)), sep)

RECURSIVE Concat(_)
Concat(ss) == IF ss = <<>> THEN <<>> ELSE Head(ss) \o Concat(Tail(ss))

\* str::to_lowercase; U+0130 ("U+304") becomes the two characters "i" U+0307
to_lowercase(s) ==
    IF \A i \in 1..Len(s) : s[i] # "U+304" THEN [i \in 1..Len(s) |-> lower_char(s[i])]
    ELSE Concat([i \in 1..Len(s) |-> IF s[i] = "U+304" THEN <<"i", "U+775">>
                                      ELSE <<lower_char(s[i])>>])

-----------------------------------------------------------------------------
(* Errors: FetchError and its Display text.                                *)

MissingUrl == [kind |-> "MissingUrl"]
InvalidUrlScheme == [kind |-> "InvalidUrlScheme"]
BlockedUrl == [kind |-> "BlockedUrl"]
FirstByteTimeout == [kind |-> "FirstByteTimeout"]
ConnectError == [kind |-> "ConnectError"]
RequestError(msg) == [kind |-> "RequestError", msg |-> msg]
FetcherError(msg) == [kind |-> "FetcherError", msg |-> msg]

NoFetcherMsg == <<"N", "o", " ", "f", "e", "t", "c", "h", "e", "r", " ", "a", "v", "a", "i", "l", "a", "b", "l", "e", " ", "f", "o", "r", " ", "U", "R", "L">>

to_string(e) ==
    CASE e.kind = "MissingUrl" ->
           <<"M", "i", "s", "s", "i", "n", "g", " ", "r", "e", "q", "u", "i", "r", "e", "d", " ", "p", "a", "r", "a", "m", "e", "t", "e", "r", ":", " ", "u", "r", "l">>
      [] e.kind = "InvalidUrlScheme" ->
           <<"I", "n", "v", "a", "l", "i", "d", " ", "U", "R", "L", ":", " ", "m", "u", "s", "t", " ", "s", "t", "a", "r", "t", " ", "w", "i", "t", "h", " ", "h", "t", "t", "p", ":", "/", "/", " ", "o", "r", " ", "h", "t", "t", "p", "s", ":", "/", "/">>
      [] e.kind = "BlockedUrl" ->
           <<"B", "l", "o", "c", "k", "e", "d", " ", "U", "R", "L", ":", " ", "p", "r", "e", "f", "i", "x", " ", "n", "o", "t", " ", "a", "l", "l", "o", "w", "e", "d">>
      [] e.kind = "FirstByteTimeout" ->
           <<"R", "e", "q", "u", "e", "s", "t", " ", "t", "i", "m", "e", "d", " ", "o", "u", "t", ":", " ", "s", "e", "r", "v", "e", "r", " ", "d", "i", "d", " ", "n", "o", "t", " ", "r", "e", "s", "p", "o", "n", "d", " ", "w", "i", "t", "h", "i", "n", " ", "1", " ", "s", "e", "c", "o", "n", "d">>
      [] e.kind = "ConnectError" ->
           <<"F", "a", "i", "l", "e", "d", " ", "t", "o", " ", "c", "o", "n", "n", "e", "c", "t", " ", "t", "o", " ", "s", "e", "r", "v", "e", "r">>
      [] e.kind = "RequestError" ->
           <<"R", "e", "q", "u", "e", "s", "t", " ", "f", "a", "i", "l", "e", "d", ":", " ">> \o e.msg
      [] e.kind = "FetcherError" ->
           <<"F", "e", "t", "c", "h", "e", "r", " ", "e", "r", "r", "o", "r", ":", " ">> \o e.msg

\* FetchError::from_reqwest; a reqwest error is [timeout, connect, msg]
from_reqwest(err) ==
    IF err.timeout THEN FirstByteTimeout
    ELSE IF err.connect THEN ConnectError
    ELSE RequestError(err.msg)

Ok(r) == [ok |-> TRUE, resp |-> r]
Err(e) == [ok |-> FALSE, err |-> e]
Pending == [ok |-> FALSE, err |-> [kind |-> "pending"]]

-----------------------------------------------------------------------------
(* Url::parse, host_str and path_segments for http and https URLs: the     *)
(* authority runs to the first "/", "?" or "#", user info ends at the last *)
(* "@", the host is lower-cased and must not be empty, an empty path is    *)
(* "/", and the path ends at the first "?" or "#".                         *)

HTTP == <<"h", "t", "t", "p", ":", "/", "/">>
HTTPS == <<"h", "t", "t", "p", "s", ":", "/", "/">>

Digits == {"0", "1", "2", "3", "4", "5", "6", "7", "8", "9"}

Url_parse(u) ==
    LET prefix == IF starts_with(u, HTTPS) THEN HTTPS ELSE HTTP
        rest == SubSeq(u, Len(prefix) + 1, Len(u))
        aEnd == find_char(rest, {"/", "?", "#"})
        authority == IF aEnd = 0 THEN rest ELSE SubSeq(rest, 1, aEnd - 1)
        after == IF aEnd = 0 THEN <<>> ELSE SubSeq(rest, aEnd, Len(rest))
        at == rfind_char(authority, {"@"})
        hostport == SubSeq(authority, at + 1, Len(authority))
        colon == find_char(hostport, {":"})
        host == IF colon = 0 THEN hostport ELSE SubSeq(hostport, 1, colon - 1)
        port == IF colon = 0 THEN <<>> ELSE SubSeq(hostport, colon + 1, Len(hostport))
        pEnd == find_char(after, {"?", "#"})
        rawPath == IF pEnd = 0 THEN after ELSE SubSeq(after, 1, pEnd - 1)
    IN  IF \/ ~(starts_with(u, HTTP) \/ starts_with(u, HTTPS))
           \/ is_empty(host)
           \/ \E i \in 1..Len(host) : is_whitespace(host[i])
           \/ \E i \in 1..Len(port) : port[i] \notin Digits
        THEN None
        ELSE Some([scheme |-> SubSeq(prefix, 1, Len(prefix) - 3),
                   host |-> to_lowercase(host),
                   path |-> IF is_empty(rawPath) THEN <<"/">> ELSE rawPath])

host_str(url) == url.host

path_segments(url) == split(SubSeq(url.path, 2, Len(url.path)), "/")

-----------------------------------------------------------------------------
(* convert.rs: is_html, html_to_markdown, html_to_text, extract_attribute, *)
(* decode_entity, clean_whitespace, filter_excessive_newlines.             *)
(* A character outside ASCII is the one-character token "U+<code point>",  *)
(* and so are the apostrophe (U+39), the backslash (U+92) and the         *)
(* backtick (U+96).                                                        *)

Ascii == <<" ", "!", "\"", "#", "$", "%", "&", "U+39", "(", ")", "*", "+", ",", "-", ".", "/",
           "0", "1", "2", "3", "4", "5", "6", "7", "8", "9", ":", ";", "<", "=", ">", "?",
           "@", "A", "B", "C", "D", "E", "F", "G", "H", "I", "J", "K", "L", "M", "N", "O",
           "P", "Q", "R", "S", "T", "U", "V", "W", "X", "Y", "Z", "[", "U+92", "]", "^", "_",
           "U+96", "a", "b", "c", "d", "e", "f", "g", "h", "i", "j", "k", "l", "m", "n", "o",
           "p", "q", "r", "s", "t", "u", "v", "w", "x", "y", "z", "{", "|", "}", "~">>

\* variant: surrogate code points are accepted
char_from_u32_unchecked(code) ==
    IF code > 1114111 THEN None
    ELSE IF code >= 32 /\ code <= 126 THEN Some(Ascii[code - 31])
    ELSE IF code = 10 THEN Some("\n")
    ELSE IF code = 9 THEN Some("\t")
    ELSE IF code = 13 THEN Some("\r")
    ELSE Some("U+" \o ToString(code))

\* char::from_u32: None for a surrogate or a value above U+10FFFF
char_from_u32(code) ==
    IF (code >= 55296 /\ code <= 57343) \/ code > 1114111 THEN None
    ELSE IF code >= 32 /\ code <= 126 THEN Some(Ascii[code - 31])
    ELSE IF code = 10 THEN Some("\n")
    ELSE IF code = 9 THEN Some("\t")
    ELSE IF code = 13 THEN Some("\r")
    ELSE Some("U+" \o ToString(code))

\* length in bytes of the UTF-8 encoding of a character
len_utf8(c) ==
    IF c \in {"\n", "\t", "\r"} \/ \E k \in 1..Len(Ascii) : Ascii[k] = c THEN 1
    ELSE IF c \in {"U+169", "U+174", "U+304", "U+775"} THEN 2
    ELSE 3

RECURSIVE byte_len(_)
byte_len(s) == IF s = <<>> THEN 0 ELSE len_utf8(Head(s)) + byte_len(Tail(s))

HexDigits == <<"0", "1", "2", "3", "4", "5", "6", "7", "8", "9", "a", "b", "c", "d", "e", "f">>

digit_value(c, radix) ==
    LET l == lower_char(c)
        hits == {k \in 1..radix : HexDigits[k] = l}
    IN  IF hits = {} THEN -1 ELSE MinOf(hits) - 1

\* u32::from_str_radix: an optional "+", then one or more digits; -1 is Err.
\* A value above U+10FFFF is kept as 1114112: char_from_u32 rejects it like
\* every larger value, and like the Err of a value that overflows u32.
RECURSIVE digits_value(_, _, _)
digits_value(s, radix, acc) ==
    IF s = <<>> THEN acc
    ELSE IF digit_value(Head(s), radix) < 0 THEN -1
    ELSE IF acc * radix + digit_value(Head(s), radix) > 1114111
         THEN digits_value(Tail(s), radix, 1114112)
    ELSE digits_value(Tail(s), radix, acc * radix + digit_value(Head(s), radix))

from_str_radix(s, radix) ==
    LET ds == IF s # <<>> /\ Head(s) = "+" THEN Tail(s) ELSE s
    IN  IF ds = <<>> THEN -1 ELSE digits_value(ds, radix, 0)

\* variant: the scan for the end of an entity also gives up at a "<"
RECURSIVE entity_scan_to_tag(_, _, _)
entity_scan_to_tag(s, j, entity) ==
    IF j > Len(s) THEN [entity |-> entity, next |-> j, abort |-> FALSE]
    ELSE IF s[j] = ";" THEN [entity |-> entity, next |-> j + 1, abort |-> FALSE]
    ELSE IF is_whitespace(s[j]) \/ s[j] = "<" \/ byte_len(entity) > 10
         THEN [entity |-> entity, next |-> j, abort |-> TRUE]
    ELSE entity_scan_to_tag(s, j + 1, Append(entity, s[j]))

\* the scan loop of decode_entity from position j
RECURSIVE entity_scan(_, _, _)
entity_scan(s, j, entity) ==
    IF j > Len(s) THEN [entity |-> entity, next |-> j, abort |-> FALSE]
    ELSE IF s[j] = ";" THEN [entity |-> entity, next |-> j + 1, abort |-> FALSE]
    ELSE IF is_whitespace(s[j]) \/ byte_len(entity) > 10
         THEN [entity |-> entity, next |-> j, abort |-> TRUE]
    ELSE entity_scan(s, j + 1, Append(entity, s[j]))

entity_char(entity) ==
    CASE entity = <<"a", "m", "p">> -> "&"
      [] entity = <<"l", "t">> -> "<"
      [] entity = <<"g", "t">> -> ">"
      [] entity = <<"q", "u", "o", "t">> -> "\""
      [] entity = <<"a", "p", "o", "s">> -> "U+39"
      [] entity = <<"#", "3", "9">> -> "U+39"
      [] entity = <<"n", "b", "s", "p">> -> " "
      [] entity = <<"m", "d", "a", "s", "h">> -> "U+8212"
      [] entity = <<"n", "d", "a", "s", "h">> -> "U+8211"
      [] entity = <<"c", "o", "p", "y">> -> "U+169"
      [] entity = <<"r", "e", "g">> -> "U+174"
      [] OTHER ->
           IF entity # <<>> /\ Head(entity) = "#"
           THEN LET num_str == Tail(entity)
                    hex == num_str # <<>> /\ Head(num_str) = "x"
                    code == IF hex THEN from_str_radix(Tail(num_str), 16)
                            ELSE from_str_radix(num_str, 10)
                IN  IF code >= 0 /\ IsSome(char_from_u32(code))
                    THEN Unwrap(char_from_u32(code))
                    ELSE "&"
           ELSE "&"

\* decode_entity(c, chars) with c = s[i]: the character returned and the
\* position of the iterator afterwards
decode_entity(s, i) ==
    IF s[i] # "&" THEN [ch |-> s[i], next |-> i + 1]
    ELSE LET sc == entity_scan(s, i + 1, <<>>)
         IN  IF sc.abort THEN [ch |-> "&", next |-> sc.next]
             ELSE [ch |-> entity_char(sc.entity), next |-> sc.next]

trim_start(s) ==
    LET keep == {k \in 1..Len(s) : ~is_whitespace(s[k])}
    IN  IF keep = {} THEN <<>> ELSE SubSeq(s, MinOf(keep), Len(s))

trim(s) ==
    LET keep == {k \in 1..Len(s) : ~is_whitespace(s[k])}
    IN  IF keep = {} THEN <<>> ELSE SubSeq(s, MinOf(keep), MaxOf(keep))

\* split_whitespace().next().unwrap_or("")
first_word(s) ==
    LET t == trim_start(s)
        e == find_char(t, Whitespace)
    IN  IF e = 0 THEN t ELSE SubSeq(t, 1, e - 1)

is_html(content_type, text) ==
    \/ /\ IsSome(content_type)
       /\ \/ contains(to_lowercase(Unwrap(content_type)), <<"t", "e", "x", "t", "/", "h", "t", "m", "l">>)
          \/ contains(to_lowercase(Unwrap(content_type)), <<"a", "p", "p", "l", "i", "c", "a", "t", "i", "o", "n", "/", "x", "h", "t", "m", "l">>)
    \/ starts_with(trim_start(text), <<"<", "!", "D", "O", "C", "T", "Y", "P", "E">>)
    \/ starts_with(trim_start(text), <<"<", "h", "t", "m", "l">>)

\* the index of the character of s that starts at byte offset b (Len(s) + 1
\* for the end of s), 0 when b is past the end or inside a character
char_index(s, b) ==
    LET hits == {k \in 1..(Len(s) + 1) : byte_len(SubSeq(s, 1, k - 1)) = b}
    IN  IF hits = {} THEN 0 ELSE MinOf(hits)

\* `start + pattern.len()`: a byte offset found in tag_lower, 0 when the
\* pattern does not occur
attribute_offset(tag, attr) ==
    LET pattern == attr \o <<"=">>
        tag_lower == to_lowercase(tag)
        start == find(tag_lower, pattern)
    IN  IF start = 0 THEN 0
        ELSE byte_len(SubSeq(tag_lower, 1, start - 1)) + byte_len(pattern)

\* `&tag[start + pattern.len()..]` panics: the offset taken from tag_lower
\* is past the end of tag or inside one of its characters
extract_attribute_panics(tag, attr) ==
    /\ attribute_offset(tag, attr) # 0
    /\ char_index(tag, attribute_offset(tag, attr)) = 0

extract_attribute(tag, attr) ==
    LET offset == attribute_offset(tag, attr)
        rest == trim_start(SubSeq(tag, char_index(tag, offset), Len(tag)))
    IN  IF offset = 0 THEN None
        ELSE IF starts_with(rest, <<"\"">>)
             THEN LET r == Tail(rest)
                      e == find_char(r, {"\""})
                  IN  IF e = 0 THEN None ELSE Some(SubSeq(r, 1, e - 1))
        ELSE IF starts_with(rest, <<"U+39">>)
             THEN LET r == Tail(rest)
                      e == find_char(r, {"U+39"})
                  IN  IF e = 0 THEN None ELSE Some(SubSeq(r, 1, e - 1))
        ELSE LET e == find_char(rest, Whitespace \cup {">"})
             IN  Some(IF e = 0 THEN rest ELSE SubSeq(rest, 1, e - 1))

\* variant: a space before a newline is kept
clean_step_keep_space(st, c) ==
    IF c = "\n"
    THEN [result |-> IF st.newline_count + 1 <= 2 THEN Append(st.result, c) ELSE st.result,
          last_was_space |-> TRUE,
          newline_count |-> st.newline_count + 1]
    ELSE IF is_whitespace(c)
    THEN [result |-> IF ~st.last_was_space THEN Append(st.result, " ") ELSE st.result,
          last_was_space |-> TRUE,
          newline_count |-> 0]
    ELSE [result |-> Append(st.result, c), last_was_space |-> FALSE, newline_count |-> 0]

clean_step(st, c) ==
    IF c = "\n"
    THEN LET popped == IF st.last_was_space /\ ends_with(st.result, <<" ">>)
                       THEN SubSeq(st.result, 1, Len(st.result) - 1)
                       ELSE st.result
         IN  [result |-> IF st.newline_count + 1 <= 2 THEN Append(popped, c) ELSE popped,
              last_was_space |-> TRUE,
              newline_count |-> st.newline_count + 1]
    ELSE IF is_whitespace(c)
    THEN [result |-> IF ~st.last_was_space THEN Append(st.result, " ") ELSE st.result,
          last_was_space |-> TRUE,
          newline_count |-> 0]
    ELSE [result |-> Append(st.result, c), last_was_space |-> FALSE, newline_count |-> 0]

RECURSIVE clean_loop(_, _)
clean_loop(s, st) == IF s = <<>> THEN st ELSE clean_loop(Tail(s), clean_step(st, Head(s)))

clean_whitespace(s) ==
    trim(clean_loop(s, [result |-> <<>>, last_was_space |-> FALSE, newline_count |-> 0]).result)

RECURSIVE filter_loop(_, _, _)
filter_loop(s, result, newline_count) ==
    IF s = <<>> THEN result
    ELSE IF Head(s) = "\n"
         THEN filter_loop(Tail(s),
                          IF newline_count + 1 <= 2 THEN Append(result, Head(s)) ELSE result,
                          newline_count + 1)
    ELSE filter_loop(Tail(s), Append(result, Head(s)), 0)

filter_excessive_newlines(s) == filter_loop(s, <<>>, 0)

skip_tags == {<<"s", "c", "r", "i", "p", "t">>, <<"s", "t", "y", "l", "e">>,
              <<"n", "o", "s", "c", "r", "i", "p", "t">>, <<"i", "f", "r", "a", "m", "e">>,
              <<"s", "v", "g">>}

\* the tag between "<" at position i and the next ">" (or the end of input)
tag_at(html, i) ==
    LET close == find_char(SubSeq(html, i + 1, Len(html)), {">"})
    IN  IF close = 0 THEN [tag |-> SubSeq(html, i + 1, Len(html)), next |-> Len(html) + 1]
        ELSE [tag |-> SubSeq(html, i + 1, i + close - 1), next |-> i + close + 1]

is_closing(tag) == starts_with(to_lowercase(tag), <<"/">>)

tag_name(tag) ==
    IF is_closing(tag) THEN first_word(Tail(to_lowercase(tag)))
    ELSE first_word(to_lowercase(tag))

\* variant: a closing skip tag removes the leftmost entry of its name
skip_update_leftmost(skip_elements, tag) ==
    IF is_closing(tag)
    THEN LET hits == {k \in 1..Len(skip_elements) : skip_elements[k] = tag_name(tag)}
         IN  IF hits = {} THEN skip_elements
             ELSE SubSeq(skip_elements, 1, MinOf(hits) - 1)
                  \o SubSeq(skip_elements, MinOf(hits) + 1, Len(skip_elements))
    ELSE IF ~ends_with(tag, <<"/">>) THEN Append(skip_elements, tag_name(tag))
    ELSE skip_elements

\* the skip_elements stack after a skip tag
skip_update(skip_elements, tag) ==
    IF is_closing(tag)
    THEN LET hits == {k \in 1..Len(skip_elements) : skip_elements[k] = tag_name(tag)}
         IN  IF hits = {} THEN skip_elements
             ELSE SubSeq(skip_elements, 1, MaxOf(hits) - 1)
                  \o SubSeq(skip_elements, MaxOf(hits) + 1, Len(skip_elements))
    ELSE IF ~ends_with(tag, <<"/">>) THEN Append(skip_elements, tag_name(tag))
    ELSE skip_elements

\* in_skip_element after a skip tag: reassigned where the stack is changed
skip_count(in_skip_element, skip_elements, tag) ==
    IF is_closing(tag)
    THEN IF \E k \in 1..Len(skip_elements) : skip_elements[k] = tag_name(tag)
         THEN Len(skip_update(skip_elements, tag))
         ELSE in_skip_element
    ELSE IF ~ends_with(tag, <<"/">>) THEN Len(skip_update(skip_elements, tag))
    ELSE in_skip_element

saturating_sub(a, b) == IF a >= b THEN a - b ELSE 0

RECURSIVE repeat(_, _)
repeat(s, n) == IF n <= 0 THEN <<>> ELSE s \o repeat(s, n - 1)

Headings == <<<<"h", "1">>, <<"h", "2">>, <<"h", "3">>, <<"h", "4">>, <<"h", "5">>, <<"h", "6">>>>

\* variant: every heading is rendered at the first level
heading_level_first(name) == IF \E k \in 1..6 : Headings[k] = name THEN 1 ELSE 0

heading_level(name) ==
    IF \E k \in 1..6 : Headings[k] = name THEN CHOOSE k \in 1..6 : Headings[k] = name ELSE 0

\* the match on tag_name of html_to_markdown
markdown_tag(st, tag) ==
    LET name == tag_name(tag)
        closing == is_closing(tag)
    IN  IF heading_level(name) > 0
        THEN [st EXCEPT !.output = @ \o (IF ~closing
                                          THEN <<"\n">> \o repeat(<<"#">>, heading_level(name)) \o <<" ">>
                                          ELSE <<"\n", "\n">>)]
        ELSE IF name \in {<<"p">>, <<"d", "i", "v">>, <<"s", "e", "c", "t", "i", "o", "n">>,
                          <<"a", "r", "t", "i", "c", "l", "e">>, <<"m", "a", "i", "n">>,
                          <<"h", "e", "a", "d", "e", "r">>, <<"f", "o", "o", "t", "e", "r">>}
        THEN [st EXCEPT !.output = @ \o (IF closing THEN <<"\n", "\n">> ELSE <<>>)]
        ELSE IF name = <<"b", "r">> THEN [st EXCEPT !.output = Append(@, "\n")]
        ELSE IF name = <<"h", "r">> THEN [st EXCEPT !.output = @ \o <<"\n", "-", "-", "-", "\n">>]
        ELSE IF name \in {<<"u", "l">>, <<"o", "l">>}
        THEN IF closing
             THEN [st EXCEPT !.list_depth = saturating_sub(@, 1),
                             !.output = IF saturating_sub(st.list_depth, 1) = 0
                                        THEN Append(@, "\n") ELSE @]
             ELSE [st EXCEPT !.list_depth = @ + 1]
        ELSE IF name = <<"l", "i">>
        THEN IF ~closing
             THEN [st EXCEPT !.output = @ \o <<"\n">>
                                          \o repeat(<<" ", " ">>, saturating_sub(st.list_depth, 1))
                                          \o <<"-", " ">>]
             ELSE st
        ELSE IF name \in {<<"s", "t", "r", "o", "n", "g">>, <<"b">>}
        THEN [st EXCEPT !.output = @ \o <<"*", "*">>]
        ELSE IF name \in {<<"e", "m">>, <<"i">>} THEN [st EXCEPT !.output = Append(@, "*")]
        ELSE IF name = <<"p", "r", "e">>
        THEN [st EXCEPT !.output = @ \o <<"\n", "U+96", "U+96", "U+96", "\n">>, !.in_pre = ~closing]
        ELSE IF name = <<"c", "o", "d", "e">>
        THEN [st EXCEPT !.output = IF ~st.in_pre THEN Append(@, "U+96") ELSE @]
        ELSE IF name = <<"b", "l", "o", "c", "k", "q", "u", "o", "t", "e">>
        THEN IF ~closing
             THEN [st EXCEPT !.in_blockquote = TRUE, !.output = @ \o <<"\n", ">", " ">>]
             ELSE [st EXCEPT !.in_blockquote = FALSE, !.output = Append(@, "\n")]
        ELSE IF name = <<"a">>
        THEN IF ~closing /\ extract_attribute_panics(tag, <<"h", "r", "e", "f">>)
             THEN [st EXCEPT !.panicked = TRUE]
             ELSE IF ~closing /\ IsSome(extract_attribute(tag, <<"h", "r", "e", "f">>))
             THEN [st EXCEPT !.output = @ \o <<"[">> \o <<"]", "(">>
                                          \o Unwrap(extract_attribute(tag, <<"h", "r", "e", "f">>))
                                          \o <<")">>]
             ELSE st
        ELSE st

RECURSIVE markdown_continue(_, _)

\* variant: a newline of the text is pushed as it is inside a blockquote too
markdown_iteration_plain(html, i, st) ==
    IF html[i] = "<"
    THEN LET t == tag_at(html, i)
         IN  IF tag_name(t.tag) \in skip_tags
             THEN [next |-> t.next,
                   st |-> [st EXCEPT !.skip_elements = skip_update(@, t.tag),
                                     !.in_skip_element = skip_count(@, st.skip_elements, t.tag)]]
             ELSE IF st.in_skip_element > 0 THEN [next |-> t.next, st |-> st]
             ELSE [next |-> t.next, st |-> markdown_tag(st, t.tag)]
    ELSE IF st.in_skip_element = 0
    THEN LET d == decode_entity(html, i)
         IN  [next |-> d.next,
              st |-> [st EXCEPT !.output = Append(@, d.ch)]]
    ELSE [next |-> i + 1, st |-> st]

\* one pass of the while loop of html_to_markdown at position i
markdown_iteration(html, i, st) ==
    IF html[i] = "<"
    THEN LET t == tag_at(html, i)
         IN  IF tag_name(t.tag) \in skip_tags
             THEN [next |-> t.next,
                   st |-> [st EXCEPT !.skip_elements = skip_update(@, t.tag),
                                     !.in_skip_element = skip_count(@, st.skip_elements, t.tag)]]
             ELSE IF st.in_skip_element > 0 THEN [next |-> t.next, st |-> st]
             ELSE [next |-> t.next, st |-> markdown_tag(st, t.tag)]
    ELSE IF st.in_skip_element = 0
    THEN LET d == decode_entity(html, i)
         IN  [next |-> d.next,
              st |-> [st EXCEPT !.output = IF st.in_blockquote /\ d.ch = "\n"
                                           THEN @ \o <<"\n", ">", " ">>
                                           ELSE Append(@, d.ch)]]
    ELSE [next |-> i + 1, st |-> st]

\* the while loop of html_to_markdown from position i
RECURSIVE markdown_loop(_, _, _)
markdown_loop(html, i, st) ==
    IF i > Len(html) \/ st.panicked THEN st
    ELSE markdown_continue(html, markdown_iteration(html, i, st))

\* the loop continues from the position and locals r that a pass leaves
markdown_continue(html, r) == markdown_loop(html, r.next, r.st)

\* the locals of html_to_markdown before the loop
markdown_start ==
    [output |-> <<>>, in_skip_element |-> 0, skip_elements |-> <<>>, list_depth |-> 0,
     in_pre |-> FALSE, in_blockquote |-> FALSE, panicked |-> FALSE]

markdown_scan(html) == markdown_loop(html, 1, markdown_start)

\* html_to_markdown panics on this input instead of returning
html_to_markdown_panics(html) == markdown_scan(html).panicked

html_to_markdown(html) == clean_whitespace(markdown_scan(html).output)

newline_tags == {<<"p">>, <<"d", "i", "v">>, <<"b", "r">>, <<"h", "1">>, <<"h", "2">>,
                 <<"h", "3">>, <<"h", "4">>, <<"h", "5">>, <<"h", "6">>, <<"l", "i">>,
                 <<"t", "r">>}

\* the newline-inducing elements of html_to_text
text_tag(st, tag) ==
    LET name == tag_name(tag)
        closing == is_closing(tag)
    IN  IF name \in newline_tags /\ (closing \/ name = <<"b", "r">>)
        THEN [st EXCEPT !.output = Append(@, "\n")]
        ELSE IF name \in newline_tags /\ ~closing
                /\ (heading_level(name) > 0 \/ name = <<"p">>)
        THEN [st EXCEPT !.output = Append(@, "\n")]
        ELSE st

RECURSIVE text_continue(_, _)

\* one pass of the while loop of html_to_text at position i
text_iteration(html, i, st) ==
    IF html[i] = "<"
    THEN LET t == tag_at(html, i)
         IN  IF tag_name(t.tag) \in skip_tags
             THEN [next |-> t.next,
                   st |-> [st EXCEPT !.skip_elements = skip_update(@, t.tag),
                                     !.in_skip_element = skip_count(@, st.skip_elements, t.tag)]]
             ELSE IF st.in_skip_element > 0 THEN [next |-> t.next, st |-> st]
             ELSE [next |-> t.next, st |-> text_tag(st, t.tag)]
    ELSE IF st.in_skip_element = 0
    THEN LET d == decode_entity(html, i)
         IN  [next |-> d.next, st |-> [st EXCEPT !.output = Append(@, d.ch)]]
    ELSE [next |-> i + 1, st |-> st]

\* the while loop of html_to_text from position i
RECURSIVE text_loop(_, _, _)
text_loop(html, i, st) ==
    IF i > Len(html) THEN st
    ELSE text_continue(html, text_iteration(html, i, st))

\* the loop continues from the position and locals r that a pass leaves
text_continue(html, r) == text_loop(html, r.next, r.st)

\* the locals of html_to_text before the loop
text_start == [output |-> <<>>, in_skip_element |-> 0, skip_elements |-> <<>>]

text_scan(html) == text_loop(html, 1, text_start)

html_to_text(html) == clean_whitespace(text_scan(html).output)

-----------------------------------------------------------------------------
(* fetchers/github_repo.rs: which URLs the GitHub repository fetcher takes. *)

GITHUB_HOST == <<"g", "i", "t", "h", "u", "b", ".", "c", "o", "m">>

reserved == {<<"s", "e", "t", "t", "i", "n", "g", "s">>, <<"e", "x", "p", "l", "o", "r", "e">>, <<"t", "r", "e", "n", "d", "i", "n", "g">>, <<"c", "o", "l", "l", "e", "c", "t", "i", "o", "n", "s">>,
             <<"e", "v", "e", "n", "t", "s">>, <<"s", "p", "o", "n", "s", "o", "r", "s">>, <<"n", "o", "t", "i", "f", "i", "c", "a", "t", "i", "o", "n", "s">>, <<"m", "a", "r", "k", "e", "t", "p", "l", "a", "c", "e">>,
             <<"p", "u", "l", "l", "s">>, <<"i", "s", "s", "u", "e", "s">>, <<"c", "o", "d", "e", "s", "p", "a", "c", "e", "s">>, <<"f", "e", "a", "t", "u", "r", "e", "s">>,
             <<"e", "n", "t", "e", "r", "p", "r", "i", "s", "e">>, <<"o", "r", "g", "a", "n", "i", "z", "a", "t", "i", "o", "n", "s">>, <<"p", "r", "i", "c", "i", "n", "g">>, <<"a", "b", "o", "u", "t">>,
             <<"t", "e", "a", "m">>, <<"s", "e", "c", "u", "r", "i", "t", "y">>, <<"l", "o", "g", "i", "n">>, <<"j", "o", "i", "n">>}

\* variant: segments after the second are ignored
parse_github_url_loose(url) ==
    LET segments == path_segments(url)
    IN  IF host_str(url) # GITHUB_HOST THEN None
        ELSE IF Len(segments) < 2 THEN None
        ELSE IF is_empty(segments[1]) \/ is_empty(segments[2]) THEN None
        ELSE IF segments[1] \in reserved THEN None
        ELSE Some(<<segments[1], segments[2]>>)

\* GitHubRepoFetcher::parse_github_url: Some(<<owner, repo>>) or None
parse_github_url(url) ==
    LET segments == path_segments(url)
    IN  IF host_str(url) # GITHUB_HOST THEN None
        ELSE IF Len(segments) # 2 THEN None
        ELSE IF is_empty(segments[1]) \/ is_empty(segments[2]) THEN None
        ELSE IF segments[1] \in reserved THEN None
        ELSE Some(<<segments[1], segments[2]>>)

\* Fetcher::matches of the two built-in fetchers, named as Fetcher::name does
matches(fetcher, url) ==
    IF fetcher = "github_repo" THEN IsSome(parse_github_url(url)) ELSE TRUE

-----------------------------------------------------------------------------
(* fetchers/mod.rs: FetcherRegistry.                                       *)

register(registry, fetcher) == Append(registry, fetcher)

with_defaults == register(register(<<>>, "github_repo"), "default")

\* variant: the block-list is not consulted
registry_validate_noblock(req, opts) ==
    IF ~starts_with(req.url, HTTP) /\ ~starts_with(req.url, HTTPS)
    THEN Some(InvalidUrlScheme)
    ELSE IF Url_parse(req.url) = None THEN Some(InvalidUrlScheme)
    ELSE IF /\ ~is_empty(opts.allow_prefixes)
            /\ ~\E i \in 1..Len(opts.allow_prefixes) :
                   starts_with(req.url, opts.allow_prefixes[i])
    THEN Some(BlockedUrl)
    ELSE None

\* variant: the allow-list is not consulted
registry_validate_noallow(req, opts) ==
    IF ~starts_with(req.url, HTTP) /\ ~starts_with(req.url, HTTPS)
    THEN Some(InvalidUrlScheme)
    ELSE IF Url_parse(req.url) = None THEN Some(InvalidUrlScheme)
    ELSE IF \E i \in 1..Len(opts.block_prefixes) :
                starts_with(req.url, opts.block_prefixes[i])
    THEN Some(BlockedUrl)
    ELSE None

\* the checks FetcherRegistry::fetch makes before it looks for a fetcher:
\* Some(error) for the first check that fails, None when all pass
registry_validate(req, opts) ==
    IF ~starts_with(req.url, HTTP) /\ ~starts_with(req.url, HTTPS)
    THEN Some(InvalidUrlScheme)
    ELSE IF Url_parse(req.url) = None THEN Some(InvalidUrlScheme)
    ELSE IF /\ ~is_empty(opts.allow_prefixes)
            /\ ~\E i \in 1..Len(opts.allow_prefixes) :
                   starts_with(req.url, opts.allow_prefixes[i])
    THEN Some(BlockedUrl)
    ELSE IF \E i \in 1..Len(opts.block_prefixes) :
                starts_with(req.url, opts.block_prefixes[i])
    THEN Some(BlockedUrl)
    ELSE None

\* variant: the last matching fetcher is given the request
find_fetcher_last(fs, url) ==
    LET hits == {i \in 1..Len(fs) : matches(fs[i], url)}
    IN  IF hits = {} THEN 0 ELSE MaxOf(hits)

\* the `for fetcher in &self.fetchers` loop: index of the fetcher that is
\* given the request, 0 when the loop runs to its end
find_fetcher(fs, url) ==
    LET hits == {i \in 1..Len(fs) : matches(fs[i], url)}
    IN  IF hits = {} THEN 0 ELSE MinOf(hits)

-----------------------------------------------------------------------------
(* fetchers/default.rs: constants and helpers of the generic fetcher.      *)

FIRST_BYTE_TIMEOUT == 1
BODY_TIMEOUT == 30

TIMEOUT_MESSAGE == <<"\n", "\n", "[", ".", ".", "m", "o", "r", "e", " ", "c", "o", "n", "t", "e", "n", "t", " ", "t", "i", "m", "e", "d", " ", "o", "u", "t", ".", ".", ".", "]">>

BINARY_PREFIXES == <<<<"i", "m", "a", "g", "e", "/">>, <<"a", "u", "d", "i", "o", "/">>, <<"v", "i", "d", "e", "o", "/">>,
                     <<"a", "p", "p", "l", "i", "c", "a", "t", "i", "o", "n", "/", "o", "c", "t", "e", "t", "-", "s", "t", "r", "e", "a", "m">>, <<"a", "p", "p", "l", "i", "c", "a", "t", "i", "o", "n", "/", "p", "d", "f">>,
                     <<"a", "p", "p", "l", "i", "c", "a", "t", "i", "o", "n", "/", "z", "i", "p">>, <<"a", "p", "p", "l", "i", "c", "a", "t", "i", "o", "n", "/", "g", "z", "i", "p">>,
                     <<"a", "p", "p", "l", "i", "c", "a", "t", "i", "o", "n", "/", "x", "-", "t", "a", "r">>, <<"a", "p", "p", "l", "i", "c", "a", "t", "i", "o", "n", "/", "x", "-", "r", "a", "r">>,
                     <<"a", "p", "p", "l", "i", "c", "a", "t", "i", "o", "n", "/", "x", "-", "7", "z">>, <<"a", "p", "p", "l", "i", "c", "a", "t", "i", "o", "n", "/", "v", "n", "d", ".", "m", "s", "-">>,
                     <<"a", "p", "p", "l", "i", "c", "a", "t", "i", "o", "n", "/", "v", "n", "d", ".", "o", "p", "e", "n", "x", "m", "l", "f", "o", "r", "m", "a", "t", "s">>, <<"f", "o", "n", "t", "/">>>>

BINARY_ERROR == <<"B", "i", "n", "a", "r", "y", " ", "c", "o", "n", "t", "e", "n", "t", " ", "i", "s", " ", "n", "o", "t", " ", "s", "u", "p", "p", "o", "r", "t", "e", "d", ".", " ", "O", "n", "l", "y", " ", "t", "e", "x", "t", "u", "a", "l", " ", "c", "o", "n", "t", "e", "n", "t", " ", "(", "H", "T", "M", "L", ",", " ", "t", "e", "x", "t", ",", " ", "J", "S", "O", "N", ",", " ", "e", "t", "c", ".", ")", " ", "c", "a", "n", " ", "b", "e", " ", "f", "e", "t", "c", "h", "e", "d", ".">>

\* variant: the prefixes are compared without lower-casing the content type
is_binary_content_type_exact(content_type) ==
    \E i \in 1..Len(BINARY_PREFIXES) : starts_with(content_type, BINARY_PREFIXES[i])

is_binary_content_type(content_type) ==
    LET ct_lower == to_lowercase(content_type)
    IN  \E i \in 1..Len(BINARY_PREFIXES) : starts_with(ct_lower, BINARY_PREFIXES[i])

\* str::trim_matches('"')
RECURSIVE trim_matches_quote(_)
trim_matches_quote(s) ==
    IF s # <<>> /\ Head(s) = "\"" THEN trim_matches_quote(Tail(s))
    ELSE IF s # <<>> /\ s[Len(s)] = "\"" THEN trim_matches_quote(SubSeq(s, 1, Len(s) - 1))
    ELSE s

FILENAME_QUOTED == <<"f", "i", "l", "e", "n", "a", "m", "e", "=", "\"">>
FILENAME_PLAIN == <<"f", "i", "l", "e", "n", "a", "m", "e", "=">>

parse_content_disposition_filename(value) ==
    LET qStart == find(value, FILENAME_QUOTED)
        qRest == SubSeq(value, qStart + Len(FILENAME_QUOTED), Len(value))
        qEnd == find_char(qRest, {"\""})
        pStart == find(value, FILENAME_PLAIN)
        pRest == SubSeq(value, pStart + Len(FILENAME_PLAIN), Len(value))
        pStop == find_char(pRest, Whitespace \cup {";"})
        pEnd == IF pStop = 0 THEN Len(pRest) ELSE pStop - 1
        filename == trim_matches_quote(SubSeq(pRest, 1, pEnd))
    IN  IF qStart # 0 /\ qEnd # 0 THEN Some(SubSeq(qRest, 1, qEnd - 1))
        ELSE IF pStart # 0 /\ ~is_empty(filename) THEN Some(filename)
        ELSE None

\* extract_filename; disposition is the Content-Disposition header, if any
extract_filename(disposition, url) ==
    LET fromHeader == IF IsSome(disposition)
                      THEN parse_content_disposition_filename(Unwrap(disposition))
                      ELSE None
        parsed == Url_parse(url)
        segments == path_segments(Unwrap(parsed))
        last == segments[Len(segments)]
    IN  IF IsSome(fromHeader) THEN fromHeader
        ELSE IF IsSome(parsed) /\ contains(last, <<".">>) /\ ~is_empty(last) THEN Some(last)
        ELSE None

\* String::from_utf8_lossy: a byte below 0x80 is its ASCII character, the
\* byte token "xFF" is not valid UTF-8 and becomes U+FFFD
from_utf8_lossy(bytes) ==
    [i \in 1..Len(bytes) |-> IF bytes[i] = "xFF" THEN "U+65533" ELSE bytes[i]]

\* u16::to_string
RECURSIVE u16_to_string(_)
u16_to_string(n) ==
    LET d == <<"0", "1", "2", "3", "4", "5", "6", "7", "8", "9">>[(n % 10) + 1]
    IN  IF n < 10 THEN <<d>> ELSE Append(u16_to_string(n \div 10), d)

-----------------------------------------------------------------------------
(* types.rs: FetchRequest accessors and FetchResponse::default().          *)

effective_method(req) == IF IsSome(req.method) THEN Unwrap(req.method) ELSE "GET"

wants_markdown(req) == IF IsSome(req.as_markdown) THEN Unwrap(req.as_markdown) ELSE FALSE

wants_text(req) == IF IsSome(req.as_text) THEN Unwrap(req.as_text) ELSE FALSE

DefaultResponse ==
    [url |-> <<>>, status_code |-> 0, content_type |-> None, size |-> None,
     last_modified |-> None, filename |-> None, format |-> None,
     content |-> None, truncated |-> None, method |-> None, error |-> None]

-----------------------------------------------------------------------------
(* fetchers/default.rs: the pieces of DefaultFetcher::fetch.               *)

ACCEPT_MARKDOWN == <<"t", "e", "x", "t", "/", "h", "t", "m", "l", ",", " ", "t", "e", "x", "t", "/", "m", "a", "r", "k", "d", "o", "w", "n", ",", " ", "t", "e", "x", "t", "/", "p", "l", "a", "i", "n", ",", " ", "*", "/", "*", ";", "q", "=", "0", ".", "8">>
ACCEPT_TEXT == <<"t", "e", "x", "t", "/", "h", "t", "m", "l", ",", " ", "t", "e", "x", "t", "/", "p", "l", "a", "i", "n", ",", " ", "*", "/", "*", ";", "q", "=", "0", ".", "8">>
ACCEPT_ANY == <<"*", "/", "*">>

accept(req, opts) ==
    IF opts.enable_markdown /\ wants_markdown(req) THEN ACCEPT_MARKDOWN
    ELSE IF opts.enable_text /\ wants_text(req) THEN ACCEPT_TEXT
    ELSE ACCEPT_ANY

head_response(req, srv) ==
    [DefaultResponse EXCEPT
        !.url = req.url, !.status_code = srv.status,
        !.content_type = srv.content_type, !.size = srv.content_length,
        !.last_modified = srv.last_modified,
        !.filename = extract_filename(srv.content_disposition, req.url),
        !.method = Some("HEAD")]

binary_response(req, srv) ==
    [DefaultResponse EXCEPT
        !.url = req.url, !.status_code = srv.status,
        !.content_type = srv.content_type, !.size = srv.content_length,
        !.last_modified = srv.last_modified,
        !.filename = extract_filename(srv.content_disposition, req.url),
        !.error = Some(BINARY_ERROR)]

\* variant: text conversion is tried before Markdown conversion
convert_text_first(content_type, content, req, opts) ==
    IF is_html(content_type, content)
    THEN IF opts.enable_text /\ wants_text(req)
         THEN [format |-> "text", content |-> html_to_text(content)]
         ELSE IF opts.enable_markdown /\ wants_markdown(req)
         THEN [format |-> "markdown", content |-> html_to_markdown(content)]
         ELSE [format |-> "raw", content |-> content]
    ELSE [format |-> "raw", content |-> content]

\* the (format, final_content) pair before newline filtering
convert(content_type, content, req, opts) ==
    IF is_html(content_type, content)
    THEN IF opts.enable_markdown /\ wants_markdown(req)
         THEN [format |-> "markdown", content |-> html_to_markdown(content)]
         ELSE IF opts.enable_text /\ wants_text(req)
         THEN [format |-> "text", content |-> html_to_text(content)]
         ELSE [format |-> "raw", content |-> content]
    ELSE [format |-> "raw", content |-> content]

\* the conversion chosen for the body panics
convert_panics(content_type, content, req, opts) ==
    /\ is_html(content_type, content)
    /\ opts.enable_markdown /\ wants_markdown(req)
    /\ html_to_markdown_panics(content)

\* variant: the flag is always present
truncated_field_always(truncated) == Some(truncated)

\* `truncated: if truncated { Some(true) } else { None }`
truncated_field(truncated) == IF truncated THEN Some(TRUE) ELSE None

\* variant: size is the length of the content text instead of the bytes read
body_response_text_size(req, opts, srv, bytes, truncated) ==
    LET content == from_utf8_lossy(bytes)
        converted == convert(srv.content_type, content, req, opts)
        filtered == filter_excessive_newlines(converted.content)
        final_content == IF truncated THEN filtered \o TIMEOUT_MESSAGE ELSE filtered
    IN  [DefaultResponse EXCEPT
            !.url = req.url, !.status_code = srv.status,
            !.content_type = srv.content_type, !.size = Some(byte_len(final_content)),
            !.last_modified = srv.last_modified,
            !.filename = extract_filename(srv.content_disposition, req.url),
            !.format = Some(converted.format),
            !.content = Some(final_content),
            !.truncated = truncated_field(truncated)]

\* the response built after read_body_with_timeout returned (bytes, truncated)
body_response(req, opts, srv, bytes, truncated) ==
    LET content == from_utf8_lossy(bytes)
        converted == convert(srv.content_type, content, req, opts)
        filtered == filter_excessive_newlines(converted.content)
        final_content == IF truncated THEN filtered \o TIMEOUT_MESSAGE ELSE filtered
    IN  [DefaultResponse EXCEPT
            !.url = req.url, !.status_code = srv.status,
            !.content_type = srv.content_type, !.size = Some(Len(bytes)),
            !.last_modified = srv.last_modified,
            !.filename = extract_filename(srv.content_disposition, req.url),
            !.format = Some(converted.format),
            !.content = Some(final_content),
            !.truncated = truncated_field(truncated)]

TIMED_OUT_TEXT == <<"o", "p", "e", "r", "a", "t", "i", "o", "n", " ", "t", "i", "m", "e", "d", " ", "o", "u", "t">>
RESET_TEXT == <<"c", "o", "n", "n", "e", "c", "t", "i", "o", "n", " ", "r", "e", "s", "e", "t">>

\* variant: a status of 400 or more fails the request, as error_for_status()
\* would
send_errors_status(srv, timedOut) ==
    IF timedOut
    THEN {[timeout |-> TRUE, connect |-> srv.connect # "ok", msg |-> TIMED_OUT_TEXT]}
    ELSE IF srv.connect = "refuse"
    THEN {[timeout |-> FALSE, connect |-> TRUE, msg |-> RESET_TEXT]}
    ELSE IF srv.connect = "reset"
    THEN {[timeout |-> FALSE, connect |-> FALSE, msg |-> RESET_TEXT]}
    ELSE IF srv.status >= 400
    THEN {[timeout |-> FALSE, connect |-> FALSE, msg |-> u16_to_string(srv.status)]}
    ELSE {}

\* the reqwest errors send() can fail with: after the client's timeout only
\* a timeout error; before it, what the remote end did to the connection
send_errors(srv, timedOut) ==
    IF timedOut
    THEN {[timeout |-> TRUE, connect |-> srv.connect # "ok", msg |-> TIMED_OUT_TEXT]}
    ELSE IF srv.connect = "refuse"
    THEN {[timeout |-> FALSE, connect |-> TRUE, msg |-> RESET_TEXT]}
    ELSE IF srv.connect = "reset"
    THEN {[timeout |-> FALSE, connect |-> FALSE, msg |-> RESET_TEXT]}
    ELSE {}

\* variant: the timeout branch may run before the timer has fired
select_eager(streamReady, timerFired) ==
    {b \in {"chunk", "timeout"} : b = "chunk" => streamReady}

\* variant: no branch ever runs
select_never(streamReady, timerFired) == {}

\* tokio::select! over chunk_future and timeout_future: the branches it may
\* run are those whose future is ready; there is no `biased;`
select(streamReady, timerFired) ==
    {b \in {"chunk", "timeout"} :
        \/ b = "chunk" /\ streamReady
        \/ b = "timeout" /\ timerFired}

\* variant: a read error always marks the body truncated
on_chunk_error_always(buf) == [bytes |-> buf, truncated |-> TRUE]

\* the three returns of read_body_with_timeout
on_chunk_error(buf) == [bytes |-> buf, truncated |-> ~is_empty(buf)]

on_stream_end(buf) == [bytes |-> buf, truncated |-> FALSE]

on_timeout(buf) == [bytes |-> buf, truncated |-> TRUE]

-----------------------------------------------------------------------------
(* fetchers/github_repo.rs: GitHubRepoFetcher::fetch as a function of what *)
(* api.github.com answers (api); the markdown built from the repository    *)
(* metadata and the README is the opaque api.content.                      *)

API_REPOS == <<"h", "t", "t", "p", "s", ":", "/", "/", "a", "p", "i", ".", "g", "i", "t", "h", "u", "b", ".", "c", "o", "m", "/", "r", "e", "p", "o", "s", "/">>
README_PATH == <<"/", "r", "e", "a", "d", "m", "e">>
NOT_GITHUB_MSG == <<"N", "o", "t", " ", "a", " ", "v", "a", "l", "i", "d", " ", "G", "i", "t", "H", "u", "b", " ", "r", "e", "p", "o", "s", "i", "t", "o", "r", "y", " ", "U", "R", "L">>
REPO_PREFIX == <<"R", "e", "p", "o", "s", "i", "t", "o", "r", "y", " ">>
NOT_FOUND_SUFFIX == <<" ", "n", "o", "t", " ", "f", "o", "u", "n", "d">>
RATE_LIMIT_MSG == <<"G", "i", "t", "H", "u", "b", " ", "A", "P", "I", " ", "r", "a", "t", "e", " ", "l", "i", "m", "i", "t", " ", "e", "x", "c", "e", "e", "d", "e", "d">>
API_ERROR_PREFIX == <<"G", "i", "t", "H", "u", "b", " ", "A", "P", "I", " ", "e", "r", "r", "o", "r", ":", " ", "H", "T", "T", "P", " ">>
PARSE_FAILED_PREFIX == <<"F", "a", "i", "l", "e", "d", " ", "t", "o", " ", "p", "a", "r", "s", "e", " ", "r", "e", "p", "o", " ", "d", "a", "t", "a", ":", " ">>
TEXT_MARKDOWN == <<"t", "e", "x", "t", "/", "m", "a", "r", "k", "d", "o", "w", "n">>

repo_url(owner, repo) == API_REPOS \o owner \o <<"/">> \o repo

github_requests(req, api) ==
    LET parsed == Url_parse(req.url)
        names == IF IsSome(parsed) THEN parse_github_url(Unwrap(parsed)) ELSE None
        first == repo_url(Unwrap(names)[1], Unwrap(names)[2])
    IN  IF names = None THEN <<>>
        ELSE IF api.kind = "ok" THEN <<first, first \o README_PATH>>
        ELSE <<first>>

github_result(req, api) ==
    LET parsed == Url_parse(req.url)
        names == parse_github_url(Unwrap(parsed))
        owner == Unwrap(names)[1]
        repo == Unwrap(names)[2]
        error_msg == IF api.code = 404
                     THEN REPO_PREFIX \o owner \o <<"/">> \o repo \o NOT_FOUND_SUFFIX
                     ELSE IF api.code = 403 THEN RATE_LIMIT_MSG
                     ELSE API_ERROR_PREFIX \o u16_to_string(api.code)
    IN  IF parsed = None THEN Err(InvalidUrlScheme)
        ELSE IF names = None THEN Err(FetcherError(NOT_GITHUB_MSG))
        ELSE IF api.kind = "error" THEN Err(from_reqwest(api.err))
        ELSE IF api.kind = "status"
        THEN Ok([DefaultResponse EXCEPT !.url = req.url, !.status_code = api.code,
                                        !.error = Some(error_msg)])
        ELSE IF api.kind = "bad_json"
        THEN Err(FetcherError(PARSE_FAILED_PREFIX \o api.content))
        ELSE Ok([DefaultResponse EXCEPT !.url = req.url, !.status_code = 200,
                                        !.content_type = Some(TEXT_MARKDOWN),
                                        !.format = Some("github_repo"),
                                        !.content = Some(api.content)])

-----------------------------------------------------------------------------
(* Inputs: the requests, options, registries and remote ends explored.     *)

MaxSegs == 3        \* path segments of an enumerated URL
MaxChunks == 2      \* chunks in a remote end's scripted body
MaxEndless == 2     \* chunks taken from a body that never ends

RECURSIVE SeqsUpTo(_, _)
SeqsUpTo(S, n) ==
    IF n = 0 THEN {<<>>}
    ELSE LET shorter == SeqsUpTo(S, n - 1)
         IN  shorter \cup {Append(q, x) : q \in shorter, x \in S}

Schemes == {HTTP, HTTPS, <<"f", "t", "p", ":", "/", "/">>}
Hosts == {<<"g", "i", "t", "h", "u", "b", ".", "c", "o", "m">>, <<"G", "i", "t", "H", "u", "b", ".", "c", "o", "m">>, <<"x", ".", "i", "o">>, <<>>}
SegNames == {<<"o">>, <<"j", "o", "i", "n">>, <<>>}

RECURSIVE join_path(_)
join_path(segs) == IF segs = <<>> THEN <<>> ELSE <<"/">> \o Head(segs) \o join_path(Tail(segs))

Paths == {join_path(segs) : segs \in SeqsUpTo(SegNames, MaxSegs)}

UrlInputs == {<<>>, <<"g", "i", "t", "h", "u", "b", ".", "c", "o", "m", "/", "o", "/", "o">>} \cup {s \o h \o p : s \in Schemes, h \in Hosts, p \in Paths}

PlainUrl == <<"h", "t", "t", "p", ":", "/", "/", "x", ".", "i", "o", "/", "o">>
FileUrl == <<"h", "t", "t", "p", ":", "/", "/", "x", ".", "i", "o", "/", "o", "/", "f", ".", "t", "x", "t">>
RepoUrl == <<"h", "t", "t", "p", "s", ":", "/", "/", "g", "i", "t", "h", "u", "b", ".", "c", "o", "m", "/", "o", "/", "o">>

ListUrls == {<<>>, <<"f", "t", "p", ":", "/", "/", "x", ".", "i", "o", "/", "o">>, <<"h", "t", "t", "p", ":", "/", "/">>, PlainUrl, <<"h", "t", "t", "p", "s", ":", "/", "/", "x", ".", "i", "o", "/", "o">>, RepoUrl}
PrefixLists == {<<>>, <<<<"h", "t", "t", "p", ":", "/", "/", "x", ".", "i", "o">>>>, <<<<"h", "t", "t", "p", "s", ":", "/", "/">>, <<"h", "t", "t", "p", ":", "/", "/", "x", ".", "i", "o", "/", "o">>>>, <<<<"f", "t", "p", ":", "/", "/">>>>, <<<<>>>>}

Registries == {<<>>, <<"github_repo">>, <<"default">>, with_defaults,
               <<"default", "github_repo">>}

NewRequest(url) == [url |-> url, method |-> None, as_markdown |-> None, as_text |-> None]

\* the FetchOptions client::fetch builds
FetchDefaults ==
    [user_agent |-> None, allow_prefixes |-> <<>>, block_prefixes |-> <<>>,
     enable_markdown |-> TRUE, enable_text |-> TRUE]

Chunks == {<<"a">>, <<"b", "\n">>}
Tails == {"end", "err", "stall", "endless"}

TEXT_PLAIN == <<"t", "e", "x", "t", "/", "p", "l", "a", "i", "n">>
TEXT_HTML == <<"t", "e", "x", "t", "/", "h", "t", "m", "l", ";", " ", "c", "h", "a", "r", "s", "e", "t", "=", "u", "t", "f", "-", "8">>
IMAGE_PNG == <<"I", "m", "a", "g", "e", "/", "P", "N", "G">>

PlainServer ==
    [connect |-> "ok", status |-> 200, content_type |-> Some(TEXT_PLAIN),
     content_length |-> None, last_modified |-> None,
     content_disposition |-> None, chunks |-> <<<<"a">>>>, tail |-> "end"]

\* remote ends that differ in how the connection and the body stream behave
StreamServers ==
    {[PlainServer EXCEPT !.connect = c] : c \in {"refuse", "reset", "silent"}}
    \cup {[PlainServer EXCEPT !.chunks = cs, !.tail = t] :
             cs \in SeqsUpTo(Chunks, MaxChunks), t \in Tails}

HtmlDoc == <<"<", "h", "t", "m", "l", ">", "<", "b", ">", "a", "\n", "\n", "\n", "&", "l", "t", ";">>
LossyDoc == <<"a", "xFF", "\n", "\n", "\n", "b">>

\* remote ends that differ in the headers and the document they send
DocServers ==
    {[PlainServer EXCEPT !.status = st, !.content_type = ct, !.content_length = cl,
                         !.content_disposition = cd, !.chunks = <<doc>>, !.tail = t] :
        st \in {200, 404, 503},
        ct \in {None, Some(TEXT_PLAIN), Some(TEXT_HTML), Some(IMAGE_PNG)},
        cl \in {None, Some(7)},
        cd \in {None, Some(<<"a", "t", "t", "a", "c", "h", "m", "e", "n", "t", ";", " ", "f", "i", "l", "e", "n", "a", "m", "e", "=", "\"", "f", ".", "t", "x", "t", "\"">>)},
        doc \in {HtmlDoc, LossyDoc},
        t \in {"end", "err"}}

Flags ==
    [method : {None, Some("GET"), Some("HEAD")}, as_markdown : {None, Some(TRUE)},
     as_text : {None, Some(TRUE), Some(FALSE)}, enable_markdown : BOOLEAN,
     enable_text : BOOLEAN]

Input(e, req, opts, srv, fs) ==
    [entry |-> e, request |-> req, options |-> opts, server |-> srv, fetchers |-> fs]

\* every URL shape, against the default registry and against custom ones
DispatchInputs ==
    {Input("fetch_with_options", NewRequest(u), FetchDefaults, PlainServer, <<>>) :
        u \in UrlInputs}
    \cup {Input("registry_fetch", NewRequest(u), FetchDefaults, PlainServer, fs) :
             u \in UrlInputs, fs \in Registries}

\* every allow-list and block-list, on both entry points
ListInputs ==
    {Input(e, NewRequest(u),
           [FetchDefaults EXCEPT !.allow_prefixes = al, !.block_prefixes = bl],
           PlainServer, IF e = "registry_fetch" THEN with_defaults ELSE <<>>) :
        e \in {"fetch_with_options", "registry_fetch"}, u \in ListUrls,
        al \in PrefixLists, bl \in PrefixLists}

\* every behaviour of the connection and the body stream
StreamInputs ==
    {Input("fetch_with_options", NewRequest(PlainUrl), FetchDefaults, srv, <<>>) :
        srv \in StreamServers}

\* every combination of request flags and options, per content type
FlagInputs ==
    {Input("fetch_with_options",
           [url |-> PlainUrl, method |-> f.method, as_markdown |-> f.as_markdown,
            as_text |-> f.as_text],
           [FetchDefaults EXCEPT !.enable_markdown = f.enable_markdown,
                                 !.enable_text = f.enable_text],
           srv, <<>>) :
        f \in Flags,
        srv \in {s \in DocServers : /\ s.status = 200 /\ s.content_length = None
                                    /\ s.content_disposition = None /\ s.tail = "end"}}

\* every combination of response headers, per method and conversion
DocInputs ==
    {Input("fetch_with_options",
           [url |-> u, method |-> m, as_markdown |-> md, as_text |-> None],
           FetchDefaults, srv, <<>>) :
        u \in {PlainUrl, FileUrl}, m \in {None, Some("HEAD")},
        md \in {None, Some(TRUE)}, srv \in DocServers}

\* a repository URL with each method: the request GitHubRepoFetcher takes
RepoInputs ==
    {Input("fetch_with_options", [NewRequest(RepoUrl) EXCEPT !.method = m],
           FetchDefaults, PlainServer, <<>>) :
        m \in {None, Some("GET"), Some("HEAD")}}

\* an HTML page whose link tag holds U+0130 before its href attribute
DotDoc == <<"<", "h", "t", "m", "l", ">", "<", "a", " ", "U+304", "h", "r", "e", "f", "=", ">">>

DotInputs ==
    {Input("fetch_with_options", [NewRequest(PlainUrl) EXCEPT !.as_markdown = md],
           FetchDefaults,
           [PlainServer EXCEPT !.content_type = Some(TEXT_HTML), !.chunks = <<DotDoc>>],
           <<>>) :
        md \in {None, Some(TRUE)}}

\* spellings of a listed host: other letter case, the host as userinfo, and
\* a longer host that begins with it
SpellingUrls ==
    {<<"h", "t", "t", "p", "s", ":", "/", "/", "G", "i", "t", "H", "u", "b", ".", "c", "o", "m", "/", "o", "/", "o">>, <<"h", "t", "t", "p", ":", "/", "/", "x", ".", "i", "o", "@", "g", "i", "t", "h", "u", "b", ".", "c", "o", "m", "/", "o">>, <<"h", "t", "t", "p", ":", "/", "/", "x", ".", "i", "o", ".", "o", "/", "o">>}

SpellingLists == {<<>>, <<<<"h", "t", "t", "p", "s", ":", "/", "/", "g", "i", "t", "h", "u", "b", ".", "c", "o", "m">>>>, <<<<"h", "t", "t", "p", ":", "/", "/", "x", ".", "i", "o">>>>}

SpellingInputs ==
    {Input(e, NewRequest(u),
           [FetchDefaults EXCEPT !.allow_prefixes = al, !.block_prefixes = bl],
           PlainServer, IF e = "registry_fetch" THEN with_defaults ELSE <<>>) :
        e \in {"fetch_with_options", "registry_fetch"}, u \in SpellingUrls,
        al \in SpellingLists, bl \in SpellingLists}

Inputs ==
    DispatchInputs \cup ListInputs \cup StreamInputs \cup FlagInputs \cup DocInputs
        \cup RepoInputs \cup DotInputs \cup SpellingInputs

\* what api.github.com may answer to GitHubRepoFetcher
GitHubApi ==
    {[kind |-> "error", code |-> 0, content |-> <<>>, err |-> e] :
        e \in {[timeout |-> TRUE, connect |-> FALSE, msg |-> TIMED_OUT_TEXT],
               [timeout |-> FALSE, connect |-> TRUE, msg |-> RESET_TEXT]}}
    \cup {[kind |-> "status", code |-> c, content |-> <<>>,
           err |-> [timeout |-> FALSE, connect |-> FALSE, msg |-> <<>>]] :
             c \in {403, 404, 500}}
    \cup {[kind |-> k, code |-> 200, content |-> <<"#", " ", "o", "/", "o">>,
           err |-> [timeout |-> FALSE, connect |-> FALSE, msg |-> <<>>]] :
             k \in {"bad_json", "ok"}}

-----------------------------------------------------------------------------
(* The state machine: one request, from the entry point to its result.     *)

Init ==
    /\ \E in \in Inputs :
          /\ entry = in.entry
          /\ request = in.request
          /\ options = in.options
          /\ server = in.server
          /\ fetchers = in.fetchers
          /\ pc = IF in.entry = "registry_fetch" THEN "registry" ELSE "start"
    /\ parsed_url = None
    /\ matchesCalled = <<>>
    /\ fetchCalled = <<>>
    /\ httpSent = <<>>
    /\ fetcherResult = Pending
    /\ outcome = Pending
    /\ now = 0
    /\ clientDeadline = None
    /\ deadline = None
    /\ stream = <<>>
    /\ ready = FALSE
    /\ body = <<>>
    /\ consumed = <<>>
    /\ readerOut = None
    /\ args = None
    /\ returned = None
    /\ stdin = <<>>
    /\ cursor = 0
    /\ current = None
    /\ stdout = <<>>
    /\ stderr = <<>>
    /\ callbacks = <<>>

\* client::fetch_with_options
FetchWithOptions ==
    /\ pc = "start"
    /\ IF is_empty(request.url)
       THEN /\ outcome' = Err(MissingUrl)
            /\ pc' = "done"
            /\ UNCHANGED fetchers
       ELSE /\ fetchers' = with_defaults
            /\ pc' = "registry"
            /\ UNCHANGED outcome
    /\ UNCHANGED <<inputVars, adapterVars, callVars, parsed_url, matchesCalled, fetchCalled, httpSent,
                   fetcherResult, now, clientDeadline, readerVars>>

\* FetcherRegistry::fetch up to the call of the chosen fetcher's fetch()
RegistryFetch ==
    /\ pc = "registry"
    /\ LET failed == registry_validate(request, options)
           url == Url_parse(request.url)
           i == find_fetcher(fetchers, Unwrap(url))
       IN  IF IsSome(failed)
           THEN /\ outcome' = Err(Unwrap(failed))
                /\ pc' = "done"
                /\ parsed_url' = IF starts_with(request.url, HTTP) \/ starts_with(request.url, HTTPS)
                                 THEN url ELSE None
                /\ UNCHANGED <<matchesCalled, fetchCalled>>
           ELSE /\ parsed_url' = url
                /\ matchesCalled' = [j \in 1..(IF i = 0 THEN Len(fetchers) ELSE i) |-> j]
                /\ IF i = 0
                   THEN /\ outcome' = Err(FetcherError(NoFetcherMsg))
                        /\ pc' = "done"
                        /\ UNCHANGED fetchCalled
                   ELSE /\ fetchCalled' = Append(fetchCalled, i)
                        /\ pc' = fetchers[i]
                        /\ UNCHANGED outcome
    /\ UNCHANGED <<inputVars, adapterVars, callVars, fetchers, httpSent, fetcherResult, now,
                   clientDeadline, readerVars>>

\* FetcherRegistry::fetch: `return fetcher.fetch(&request, &options).await`
RegistryReturn ==
    /\ pc = "returning"
    /\ outcome' = fetcherResult
    /\ pc' = "done"
    /\ UNCHANGED <<inputVars, adapterVars, callVars, regVars, httpSent, fetcherResult, now,
                   clientDeadline, readerVars>>

\* GitHubRepoFetcher::fetch
GitHubFetch ==
    /\ pc = "github_repo"
    /\ \E api \in GitHubApi :
          /\ httpSent' = httpSent \o
                 [k \in 1..Len(github_requests(request, api)) |->
                     [method |-> "GET", url |-> github_requests(request, api)[k],
                      accept |-> <<>>]]
          /\ fetcherResult' = github_result(request, api)
    /\ pc' = "returning"
    /\ UNCHANGED <<inputVars, adapterVars, callVars, regVars, outcome, now, clientDeadline, readerVars>>

\* DefaultFetcher::fetch up to send(): the client starts its total timeout
DefaultSend ==
    /\ pc = "default"
    /\ IF is_empty(request.url)
       THEN /\ fetcherResult' = Err(MissingUrl)
            /\ pc' = "returning"
            /\ UNCHANGED <<httpSent, clientDeadline>>
       ELSE /\ httpSent' = Append(httpSent, [method |-> effective_method(request),
                                             url |-> request.url,
                                             accept |-> accept(request, options)])
            /\ clientDeadline' = Some(now + FIRST_BYTE_TIMEOUT)
            /\ pc' = "sending"
            /\ UNCHANGED fetcherResult
    /\ UNCHANGED <<inputVars, adapterVars, callVars, regVars, outcome, now, readerVars>>

ClientTimedOut == IsSome(clientDeadline) /\ now >= Unwrap(clientDeadline)

\* send() fails: `.map_err(FetchError::from_reqwest)?`
SendError ==
    /\ pc = "sending"
    /\ \E err \in send_errors(server, ClientTimedOut) :
          fetcherResult' = Err(from_reqwest(err))
    /\ pc' = "returning"
    /\ UNCHANGED <<inputVars, adapterVars, callVars, regVars, httpSent, outcome, now, clientDeadline,
                   readerVars>>

\* send() succeeds: the metadata is taken from the headers, a HEAD request
\* or a binary content type returns, otherwise read_body_with_timeout starts
HeadersArrive ==
    /\ pc = "sending"
    /\ server.connect = "ok"
    /\ ~ClientTimedOut
    /\ IF effective_method(request) = "HEAD"
       THEN /\ fetcherResult' = Ok(head_response(request, server))
            /\ pc' = "returning"
            /\ UNCHANGED <<deadline, stream>>
       ELSE IF IsSome(server.content_type) /\ is_binary_content_type(Unwrap(server.content_type))
       THEN /\ fetcherResult' = Ok(binary_response(request, server))
            /\ pc' = "returning"
            /\ UNCHANGED <<deadline, stream>>
       ELSE /\ deadline' = Some(now + BODY_TIMEOUT)
            /\ stream' = server.chunks
            /\ pc' = "reading"
            /\ UNCHANGED fetcherResult
    /\ UNCHANGED <<inputVars, adapterVars, callVars, regVars, httpSent, outcome, now, clientDeadline,
                   ready, body, consumed, readerOut>>

-----------------------------------------------------------------------------
(* read_body_with_timeout: the select! loop over the response's byte       *)
(* stream and the sleep_until(deadline) timer.  The stream belongs to a    *)
(* client built with .timeout(FIRST_BYTE_TIMEOUT): once that total timeout *)
(* has expired, polling the stream yields a timeout error, whatever the    *)
(* remote end has sent.                                                    *)

NextIsChunk == stream # <<>> \/ server.tail = "endless"

NextChunk == IF stream # <<>> THEN Head(stream) ELSE <<"a">>

\* stream.next() would complete if polled / sleep_until(deadline) would
StreamReady == ready \/ ClientTimedOut

TimerFired == IsSome(deadline) /\ now >= Unwrap(deadline)

\* the remote end's next item (a chunk, the end, a reset) reaches the client
Arrive ==
    /\ pc = "reading"
    /\ ~ready
    /\ ~ClientTimedOut
    /\ \/ stream # <<>>
       \/ server.tail \in {"end", "err"}
       \/ server.tail = "endless" /\ Len(consumed) < Len(server.chunks) + MaxEndless
    /\ ready' = TRUE
    /\ UNCHANGED <<inputVars, adapterVars, callVars, regVars, pc, httpSent, fetcherResult, outcome, now,
                   clientDeadline, deadline, stream, body, consumed, readerOut>>

\* `return (Bytes::from(body), flag)`: what the loop saw when it returned
Return(ret, stop) ==
    /\ readerOut' = Some([bytes |-> ret.bytes, truncated |-> ret.truncated,
                          stop |-> stop, at |-> now, streamReady |-> StreamReady,
                          chunkReady |-> ready /\ NextIsChunk,
                          timerFired |-> TimerFired])
    /\ pc' = "assembling"
    /\ UNCHANGED <<inputVars, adapterVars, callVars, regVars, httpSent, fetcherResult, outcome, now,
                   clientDeadline, deadline, stream, ready, body, consumed>>

\* chunk branch, Some(Ok(bytes)): body.extend_from_slice(&bytes), loop again
ConsumeChunk ==
    /\ pc = "reading"
    /\ "chunk" \in select(StreamReady, TimerFired)
    /\ ~ClientTimedOut /\ ready /\ NextIsChunk
    /\ body' = body \o NextChunk
    /\ consumed' = Append(consumed, NextChunk)
    /\ stream' = IF stream # <<>> THEN Tail(stream) ELSE stream
    /\ ready' = FALSE
    /\ UNCHANGED <<inputVars, adapterVars, callVars, regVars, pc, httpSent, fetcherResult, outcome, now,
                   clientDeadline, deadline, readerOut>>

\* chunk branch, Some(Err(e)): the remote end broke the stream
StreamError ==
    /\ pc = "reading"
    /\ "chunk" \in select(StreamReady, TimerFired)
    /\ ~ClientTimedOut /\ ready /\ ~NextIsChunk /\ server.tail = "err"
    /\ Return(on_chunk_error(body), "error")

\* chunk branch, Some(Err(e)): the client's total timeout has expired
ClientTimeout ==
    /\ pc = "reading"
    /\ "chunk" \in select(StreamReady, TimerFired)
    /\ ClientTimedOut
    /\ Return(on_chunk_error(body), "client_timeout")

\* chunk branch, None: stream complete
StreamEnd ==
    /\ pc = "reading"
    /\ "chunk" \in select(StreamReady, TimerFired)
    /\ ~ClientTimedOut /\ ready /\ ~NextIsChunk /\ server.tail = "end"
    /\ Return(on_stream_end(body), "end")

\* timeout branch
DeadlineElapsed ==
    /\ pc = "reading"
    /\ "timeout" \in select(StreamReady, TimerFired)
    /\ Return(on_timeout(body), "timeout")

\* DefaultFetcher::fetch after the body was read
DefaultFinish ==
    /\ pc = "assembling"
    /\ IF convert_panics(server.content_type,
                         from_utf8_lossy(Unwrap(readerOut).bytes), request, options)
       THEN /\ pc' = "panicked"
            /\ UNCHANGED fetcherResult
       ELSE /\ fetcherResult' = Ok(body_response(request, options, server,
                                                 Unwrap(readerOut).bytes,
                                                 Unwrap(readerOut).truncated))
            /\ pc' = "returning"
    /\ UNCHANGED <<inputVars, adapterVars, callVars, regVars, httpSent, outcome, now, clientDeadline,
                   readerVars>>

\* the instants at which a timer of the request expires
Instants == {Unwrap(d) : d \in {x \in {clientDeadline, deadline} : IsSome(x)}}

\* time passes while the request waits for the remote end: the clock moves
\* to an instant at which one of the request's timers expires
Tick ==
    /\ pc \in {"sending", "reading"}
    /\ \E t \in Instants : t > now /\ now' = t
    /\ UNCHANGED <<inputVars, adapterVars, callVars, regVars, pc, httpSent, fetcherResult, outcome,
                   clientDeadline, readerVars>>

ReaderStep ==
    ConsumeChunk \/ StreamError \/ ClientTimeout \/ StreamEnd \/ DeadlineElapsed

Next ==
    \/ FetchWithOptions
    \/ RegistryFetch
    \/ RegistryReturn
    \/ GitHubFetch
    \/ DefaultSend
    \/ SendError
    \/ HeadersArrive
    \/ Arrive
    \/ ConsumeChunk
    \/ StreamError
    \/ ClientTimeout
    \/ StreamEnd
    \/ DeadlineElapsed
    \/ DefaultFinish
    \/ Tick

Spec == Init /\ [][Next]_vars

\* the clock advances, and the reader's task runs whenever a branch of its
\* select! is ready
FairSpec == Spec /\ WF_vars(Tick) /\ WF_vars(ReaderStep)

-----------------------------------------------------------------------------
(* Properties.                                                             *)

Returned == Unwrap(readerOut)

\* what the response's content is before the sentinel is considered
Filtered ==
    filter_excessive_newlines(
        convert(server.content_type, from_utf8_lossy(Returned.bytes), request, options).content)

\* C1: every response DefaultFetcher::fetch builds after the body was read
\* has truncated = Some(true) exactly when read_body_with_timeout reported
\* truncated = true, and then its content is the filtered content followed by
\* the sentinel; when the reader reported false the field is None (never
\* Some(false)) and the content is the filtered content with nothing appended.
C1_TruncationSurfaced ==
    (IsSome(readerOut) /\ pc \in {"returning", "done"}) =>
        /\ fetcherResult.ok
        /\ fetcherResult.resp.truncated = Some(TRUE) <=> Returned.truncated
        /\ Returned.truncated =>
              /\ ends_with(Unwrap(fetcherResult.resp.content), TIMEOUT_MESSAGE)
              /\ Unwrap(fetcherResult.resp.content) = Filtered \o TIMEOUT_MESSAGE
        /\ ~Returned.truncated =>
              /\ fetcherResult.resp.truncated = None
              /\ Unwrap(fetcherResult.resp.content) = Filtered

C1_Witness ==
    /\ pc = "done" /\ IsSome(readerOut) /\ Returned.truncated
    /\ outcome.ok /\ outcome.resp.truncated = Some(TRUE)
    /\ Returned.bytes # <<>>

\* the chunk the remote end's script yields at position i
Scripted(i) == IF i <= Len(server.chunks) THEN server.chunks[i] ELSE <<"a">>

\* C2: read_body_with_timeout returns truncated = false on a clean stream
\* end, true when the deadline elapsed, and on a chunk read error true exactly
\* when at least one byte was accumulated; the bytes returned are the in-order
\* concatenation of the chunks consumed, which are the stream's first chunks.
C2_ReaderOutcomes ==
    IsSome(readerOut) =>
        /\ Returned.stop = "end" => ~Returned.truncated
        /\ Returned.stop = "timeout" => Returned.truncated
        /\ Returned.stop \in {"error", "client_timeout"} =>
              (Returned.truncated <=> Len(Returned.bytes) > 0)
        /\ Returned.bytes = Concat(consumed)
        /\ \A i \in 1..Len(consumed) : consumed[i] = Scripted(i)

C2_Witness ==
    /\ IsSome(readerOut) /\ Returned.stop = "error"
    /\ Returned.bytes = <<>> /\ ~Returned.truncated /\ server.tail = "err"

\* C3: once the headers have arrived, body reading is limited only by the
\* body deadline: a reader that returns before the body deadline, from a
\* remote end that sends its whole body and ends the stream, returns the
\* complete body with truncated = false.
C3_BodyLimitedOnlyByBodyDeadline ==
    (IsSome(readerOut) /\ server.tail = "end" /\ Returned.at < Unwrap(deadline)) =>
        /\ Returned.bytes = Concat(server.chunks)
        /\ ~Returned.truncated

\* C4 as stated: the reader stops because of the deadline only in an
\* iteration where the timer has fired and the stream has nothing ready.
C4_ChunkBeforeDeadline ==
    (IsSome(readerOut) /\ Returned.stop = "timeout") =>
        Returned.timerFired /\ ~Returned.streamReady

\* C4: the reader stops because of the deadline only in an iteration where
\* the timer has fired, whether or not the stream has an item ready in that
\* iteration; it then returns the bytes accumulated so far, marked truncated.
C4_DeadlineOnlyWhenFired ==
    (IsSome(readerOut) /\ Returned.stop = "timeout") =>
        /\ Returned.timerFired
        /\ Returned.at >= Unwrap(deadline)
        /\ Returned.truncated /\ Returned.bytes = body

C4_Witness ==
    /\ IsSome(readerOut) /\ Returned.stop = "timeout"
    /\ Returned.timerFired /\ Returned.streamReady /\ Returned.chunkReady

Allowed ==
    \/ options.allow_prefixes = <<>>
    \/ \E i \in 1..Len(options.allow_prefixes) :
          starts_with(request.url, options.allow_prefixes[i])

Blocked ==
    \E i \in 1..Len(options.block_prefixes) :
        starts_with(request.url, options.block_prefixes[i])

WellFormed ==
    /\ starts_with(request.url, HTTP) \/ starts_with(request.url, HTTPS)
    /\ IsSome(Url_parse(request.url))

PREFIX_NOT_ALLOWED == <<"p", "r", "e", "f", "i", "x", " ", "n", "o", "t", " ", "a", "l", "l", "o", "w", "e", "d">>

\* C6: a request handed to a fetcher has a URL that the allow-list admits
\* (the list is empty or one of its prefixes starts the URL) and that no
\* block-list prefix starts; a well-formed URL that violates either list
\* gets BlockedUrl, whose message contains "prefix not allowed".
C6_ListsEnforced ==
    /\ fetchCalled # <<>> => Allowed /\ ~Blocked
    /\ (pc = "done" /\ WellFormed /\ (~Allowed \/ Blocked)) =>
          /\ outcome = Err(BlockedUrl)
          /\ contains(to_string(outcome.err), PREFIX_NOT_ALLOWED)

C6_Witness ==
    /\ pc = "done" /\ outcome = Err(BlockedUrl)
    /\ options.allow_prefixes # <<>> /\ Allowed /\ Blocked

ValidationFails == is_empty(request.url) \/ ~WellFormed \/ ~Allowed \/ Blocked

\* C7: a request that fails validation never has a fetcher's matches() or
\* fetch() invoked and never has an HTTP request issued; the step that
\* validates it returns the error.
C7_RejectedBeforeAnyCall ==
    ValidationFails =>
        /\ matchesCalled = <<>> /\ fetchCalled = <<>> /\ httpSent = <<>>
        /\ pc \in {"start", "registry", "done"}
        /\ pc = "done" =>
              outcome \in {Err(MissingUrl), Err(InvalidUrlScheme), Err(BlockedUrl)}

C7_Witness ==
    /\ pc = "done" /\ outcome = Err(BlockedUrl)
    /\ WellFormed /\ ~Allowed /\ ~Blocked

\* C8: FetcherRegistry::fetch returns MissingUrl for an empty URL and
\* InvalidUrlScheme for a non-empty URL without http:// or https:// prefix or
\* that cannot be parsed, whatever the allow-list and block-list say.
C8_MissingUrlFirst ==
    (entry = "registry_fetch" /\ pc = "done") =>
        /\ is_empty(request.url) => outcome = Err(MissingUrl)
        /\ (~is_empty(request.url) /\ ~WellFormed) => outcome = Err(InvalidUrlScheme)

Dispatched ==
    /\ pc \notin {"start", "registry"}
    /\ ~ValidationFails

Matching == {i \in 1..Len(fetchers) : matches(fetchers[i], Unwrap(parsed_url))}

\* C9: for a URL that passes validation exactly one fetcher has fetch()
\* invoked, the matching one of lowest index; matches() is invoked on the
\* fetchers up to that one and on no later one; the registry returns that
\* fetch()'s result unchanged; with no matching fetcher the result is
\* FetcherError("No fetcher available for URL").
C9_FirstMatch ==
    Dispatched =>
        IF Matching = {}
        THEN /\ fetchCalled = <<>>
             /\ outcome = Err(FetcherError(NoFetcherMsg))
        ELSE /\ fetchCalled = <<MinOf(Matching)>>
             /\ matchesCalled = [j \in 1..MinOf(Matching) |-> j]
             /\ pc = "done" => outcome = fetcherResult /\ outcome # Pending

C9_Witness ==
    /\ pc = "done" /\ Dispatched
    /\ fetchers = <<"default", "github_repo">>
    /\ IsSome(parse_github_url(Unwrap(parsed_url)))
    /\ fetchCalled = <<1>> /\ outcome.ok

\* the URL names a repository: host github.com, exactly two path segments,
\* both non-empty, the first not a reserved name
RepoShaped ==
    LET segs == path_segments(Unwrap(parsed_url))
    IN  /\ Unwrap(parsed_url).host = <<"g", "i", "t", "h", "u", "b", ".", "c", "o", "m">>
        /\ Len(segs) = 2
        /\ segs[1] # <<>> /\ segs[2] # <<>>
        /\ segs[1] \notin reserved

\* C10: with the default registry a valid URL is handled by
\* GitHubRepoFetcher (index 1) exactly when it names a repository, by
\* DefaultFetcher (index 2) otherwise, and the "No fetcher available for
\* URL" error never results.
C10_DefaultRegistryDispatch ==
    (Dispatched /\ fetchers = with_defaults) =>
        /\ fetchCalled = <<IF RepoShaped THEN 1 ELSE 2>>
        /\ outcome # Err(FetcherError(NoFetcherMsg))

C10_Witness ==
    /\ pc = "done" /\ Dispatched /\ fetchers = with_defaults
    /\ Unwrap(parsed_url).host = <<"g", "i", "t", "h", "u", "b", ".", "c", "o", "m">>
    /\ Len(path_segments(Unwrap(parsed_url))) = 3
    /\ path_segments(Unwrap(parsed_url))[3] = <<>>
    /\ path_segments(Unwrap(parsed_url))[1] \notin reserved \cup {<<>>}
    /\ path_segments(Unwrap(parsed_url))[2] # <<>>
    /\ fetchCalled = <<2>>

-----------------------------------------------------------------------------
(* The response of the generic HTTP path.                                  *)

\* the request was dispatched to DefaultFetcher
OnGenericPath == fetchCalled # <<>> /\ fetchers[fetchCalled[1]] = "default"

DeclaredBinary ==
    IsSome(server.content_type) /\ is_binary_content_type(Unwrap(server.content_type))

\* the response DefaultFetcher builds for the same exchange with a remote
\* end that differs only in answering 200
ResponseFor200 ==
    LET srv == [server EXCEPT !.status = 200]
    IN  IF effective_method(request) = "HEAD" THEN head_response(request, srv)
        ELSE IF DeclaredBinary THEN binary_response(request, srv)
        ELSE body_response(request, options, srv, Returned.bytes, Returned.truncated)

\* C11: on the generic HTTP path every status code, 4xx and 5xx included,
\* yields Ok(response) with that status code and with every other field as
\* for a 200 response of the same exchange (the body is read, classified and
\* converted alike); an error is returned only after a transport failure of
\* the request (the remote end refused or reset the connection, or the
\* client's timeout expired), never because of the status code.
C11_StatusIsNotFailure ==
    (pc = "done" /\ OnGenericPath) =>
        /\ outcome.ok =>
              /\ outcome.resp.status_code = server.status
              /\ (effective_method(request) # "HEAD" /\ ~DeclaredBinary) => IsSome(readerOut)
              /\ outcome.resp = [ResponseFor200 EXCEPT !.status_code = server.status]
        /\ ~outcome.ok =>
              /\ httpSent # <<>>
              /\ server.connect # "ok" \/ ClientTimedOut
              /\ outcome.err.kind \in {"FirstByteTimeout", "ConnectError", "RequestError"}

C11_Witness ==
    /\ pc = "done" /\ OnGenericPath
    /\ server.status >= 500
    /\ outcome.ok
    /\ outcome.resp.status_code = server.status
    /\ outcome.resp.format = Some("markdown")
    /\ outcome.resp.content # Some(from_utf8_lossy(Returned.bytes))

\* the Content-Type header names a binary type, whatever its letter case
BinaryDeclared ==
    /\ IsSome(server.content_type)
    /\ LET declared == to_lowercase(Unwrap(server.content_type))
       IN  \E i \in 1..Len(BINARY_PREFIXES) : starts_with(declared, BINARY_PREFIXES[i])

\* C12: on the generic GET path a response whose declared content type is
\* binary is returned without the body being read: the reader is never
\* started and no chunk is taken from the stream; the response carries the
\* metadata of the headers and the fixed "Binary content is not supported..."
\* error, with content, format and truncated absent.  No response of the
\* generic path has both content and error present.
C12_BinaryShortCircuits ==
    (pc = "done" /\ OnGenericPath /\ outcome.ok) =>
        /\ (effective_method(request) # "HEAD" /\ BinaryDeclared) =>
              /\ readerOut = None /\ deadline = None /\ consumed = <<>> /\ body = <<>>
              /\ outcome.resp.error = Some(BINARY_ERROR)
              /\ outcome.resp.content = None
              /\ outcome.resp.format = None
              /\ outcome.resp.truncated = None
              /\ outcome.resp.url = request.url
              /\ outcome.resp.status_code = server.status
              /\ outcome.resp.content_type = server.content_type
              /\ outcome.resp.last_modified = server.last_modified
              /\ outcome.resp.filename = extract_filename(server.content_disposition, request.url)
        /\ ~(IsSome(outcome.resp.content) /\ IsSome(outcome.resp.error))

C12_Witness ==
    /\ pc = "done" /\ OnGenericPath /\ outcome.ok
    /\ effective_method(request) = "GET"
    /\ server.content_type = Some(IMAGE_PNG)
    /\ server.chunks # <<>>
    /\ consumed = <<>>
    /\ outcome.resp.error = Some(BINARY_ERROR)
    /\ IsSome(outcome.resp.filename)

\* the raw bytes the request took from the wire
BytesRead == Concat(consumed)

\* C13 as stated: in every response to a non-HEAD request in which size is
\* present, size is the number of raw body bytes the request read from the
\* wire.
C13_SizeIsBytesRead ==
    (pc = "done" /\ outcome.ok /\ effective_method(request) # "HEAD"
        /\ IsSome(outcome.resp.size)) =>
        outcome.resp.size = Some(Len(BytesRead))

\* C13, amended: on the generic path the response to a non-HEAD request has
\* size = the number of raw bytes read from the wire (the bytes the reader
\* returned, before decoding, conversion, filtering and sentinel) when the
\* body was read, and size = the parsed Content-Length header (absent
\* without one) when the declared content type is binary and no byte was read.
C13_SizeOfGetResponse ==
    (pc = "done" /\ outcome.ok /\ OnGenericPath /\ effective_method(request) # "HEAD") =>
        IF BinaryDeclared
        THEN /\ outcome.resp.size = server.content_length
             /\ BytesRead = <<>>
        ELSE /\ Returned.bytes = BytesRead
             /\ outcome.resp.size = Some(Len(BytesRead))

C13_Witness ==
    /\ pc = "done" /\ outcome.ok /\ OnGenericPath
    /\ effective_method(request) = "GET"
    /\ ~BinaryDeclared
    /\ outcome.resp.size = Some(Len(BytesRead))
    /\ server.content_length = Some(7)
    /\ Len(BytesRead) \notin {0, 7, byte_len(Unwrap(outcome.resp.content))}
    /\ outcome.resp.format = Some("markdown")

\* C14: every successful fetch through the default entry point has the
\* response's method field present, with value "HEAD", exactly when the
\* request's effective method is HEAD; and every response to a HEAD request
\* has content, format and truncated absent, and size equal to the
\* Content-Length header of the answer to the HEAD request when it parses.
C14_MethodEchoedOnlyForHead ==
    (pc = "done" /\ entry = "fetch_with_options" /\ outcome.ok) =>
        /\ IsSome(outcome.resp.method) <=> effective_method(request) = "HEAD"
        /\ IsSome(outcome.resp.method) => outcome.resp.method = Some("HEAD")
        /\ effective_method(request) = "HEAD" =>
              /\ outcome.resp.content = None
              /\ outcome.resp.format = None
              /\ outcome.resp.truncated = None
              /\ (OnGenericPath /\ IsSome(server.content_length)) =>
                     outcome.resp.size = server.content_length

\* C15: in every response the fetch entry point returns, whichever fetcher
\* produced it, the format field is absent or one of "markdown", "text",
\* "raw".
C15_FormatValues ==
    (pc = "done" /\ outcome.ok) =>
        outcome.resp.format \in {None, Some("markdown"), Some("text"), Some("raw")}

\* the body the reader returned is classified as HTML
BodyIsHtml == is_html(server.content_type, from_utf8_lossy(Returned.bytes))

MarkdownChosen ==
    request.as_markdown = Some(TRUE) /\ options.enable_markdown /\ BodyIsHtml

TextChosen ==
    request.as_text = Some(TRUE) /\ options.enable_text /\ ~MarkdownChosen /\ BodyIsHtml

\* C16: on the generic GET path, for every combination of request flags,
\* options and body, format is "markdown" iff the body is classified HTML,
\* the request wants Markdown and enable_markdown is set; "text" iff the body
\* is HTML, the Markdown condition is false, the request wants text and
\* enable_text is set; "raw" otherwise.  Markdown wins when both are
\* requested and enabled, and a non-HTML body is always "raw".
C16_FormatDecision ==
    (pc = "done" /\ OnGenericPath /\ outcome.ok /\ IsSome(readerOut)) =>
        /\ outcome.resp.format = Some("markdown") <=> MarkdownChosen
        /\ outcome.resp.format = Some("text") <=> TextChosen
        /\ outcome.resp.format = Some("raw") <=> (~MarkdownChosen /\ ~TextChosen)
        /\ ~BodyIsHtml => outcome.resp.format = Some("raw")

C16_Witness ==
    /\ pc = "done" /\ OnGenericPath /\ outcome.ok /\ IsSome(readerOut)
    /\ BodyIsHtml
    /\ request.as_markdown = Some(TRUE) /\ request.as_text = Some(TRUE)
    /\ options.enable_markdown /\ options.enable_text
    /\ outcome.resp.format = Some("markdown")
    /\ outcome.resp.content = Some(html_to_markdown(from_utf8_lossy(Returned.bytes)))

-----------------------------------------------------------------------------
(* Direct calls of the webfetch conversion functions: one call per         *)
(* behaviour, on a content type and body or on an HTML text put together   *)
(* from markup fragments.                                                  *)

MaxTokens == 3

\* a script element holding the one capital S of the fragments
SkipElement == <<"<", "s", "c", "r", "i", "p", "t", ">", "S", "<", "/", "s", "c", "r", "i", "p", "t", ">">>

\* an anchor tag with U+0130 before its href attribute
DotTag == <<"<", "a", " ", "U+304", "h", "r", "e", "f", "=", ">">>

\* an anchor tag whose unquoted href value is a "<"
LtHref == <<"<", "a", " ", "h", "r", "e", "f", "=", "<">>

HtmlTokens ==
    {SkipElement, DotTag, LtHref, <<"&", "a", "b", "c">>, <<"&", "l", "t", ";">>, <<"<", "b", ">">>, <<"<">>, <<">">>,
     <<"x">>, <<" ">>}

HtmlInputs == {Concat(ts) : ts \in SeqsUpTo(HtmlTokens, MaxTokens)}

ContentTypes ==
    {None, Some(TEXT_PLAIN), Some(<<"T", "e", "x", "t", "/", "H", "T", "M", "L", ";", " ", "c", "h", "a", "r", "s", "e", "t", "=", "u", "t", "f", "-", "8">>),
     Some(<<"a", "p", "p", "l", "i", "c", "a", "t", "i", "o", "n", "/", "x", "h", "t", "m", "l", "+", "x", "m", "l">>)}

Bodies ==
    {<<>>, <<"<", "!", "D", "O", "C", "T", "Y", "P", "E", " ", "h", "t", "m", "l", ">">>, <<"<", "!", "d", "o", "c", "t", "y", "p", "e", " ", "h", "t", "m", "l", ">">>, <<" ", "\n", "<", "h", "t", "m", "l", ">">>, <<"<", "H", "T", "M", "L", ">">>,
     <<"<", "h", "t", "m", "l", " ", "l", "a", "n", "g", "=", "e", "n", ">">>, <<"a", "<", "h", "t", "m", "l", ">">>, <<"<", "h", "t", "m">>}

MaxWs == 6

\* texts of letters, spaces, newlines and tabs
WsInputs == SeqsUpTo({"a", " ", "\n", "\t"}, MaxWs)

\* a heading or a bold element between two texts
HeadingCases ==
    [pre : {<<>>, <<"x">>, <<"x", "\n">>}, level : 1..6, h : {"h", "H"},
     attrs : {<<>>, <<" ", "i", "d", "=", "i">>}, text : {<<"t">>, <<"a", " ", "b">>}, post : {<<>>, <<"y">>}]

HeadingDoc(c) ==
    c.pre \o <<"<", c.h, Ascii[17 + c.level]>> \o c.attrs \o <<">">> \o c.text
          \o <<"<", "/", c.h, Ascii[17 + c.level], ">">> \o c.post

BoldCases ==
    [pre : {<<>>, <<"x", " ">>}, tag : {<<"s", "t", "r", "o", "n", "g">>, <<"b">>, <<"B">>}, text : {<<"t">>, <<"a", " ", "b">>},
     post : {<<>>, <<" ", "y">>}]

BoldDoc(c) ==
    c.pre \o <<"<">> \o c.tag \o <<">">> \o c.text \o <<"<", "/">> \o c.tag \o <<">">> \o c.post

MarkupDocs == {HeadingDoc(c) : c \in HeadingCases} \cup {BoldDoc(c) : c \in BoldCases}

\* Content-Disposition headers, with the parameter quoted and bare, in
\* lower and in upper case, first and followed by another parameter
Dispositions ==
    {None, Some(<<"i", "n", "l", "i", "n", "e">>), Some(<<"a", "t", "t", "a", "c", "h", "m", "e", "n", "t", ";", " ", "f", "i", "l", "e", "n", "a", "m", "e", "=", "\"", "f", ".", "p", "d", "f", "\"">>),
     Some(<<"a", "t", "t", "a", "c", "h", "m", "e", "n", "t", ";", " ", "f", "i", "l", "e", "n", "a", "m", "e", "=", "f", ".", "p", "d", "f">>), Some(<<"i", "n", "l", "i", "n", "e", ";", " ", "f", "i", "l", "e", "n", "a", "m", "e", "=", "\"", "a", " ", "b", ".", "t", "x", "t", "\"", ";", " ", "s", "i", "z", "e", "=", "1">>),
     Some(<<"i", "n", "l", "i", "n", "e", ";", " ", "f", "i", "l", "e", "n", "a", "m", "e", "=", "f", ".", "p", "d", "f", ";", " ", "s", "i", "z", "e", "=", "1">>), Some(<<"a", "t", "t", "a", "c", "h", "m", "e", "n", "t", ";", " ", "F", "I", "L", "E", "N", "A", "M", "E", "=", "\"", "f", ".", "p", "d", "f", "\"">>),
     Some(<<"a", "t", "t", "a", "c", "h", "m", "e", "n", "t", ";", " ", "F", "i", "l", "e", "n", "a", "m", "e", "=", "f", ".", "p", "d", "f">>), Some(<<"a", "t", "t", "a", "c", "h", "m", "e", "n", "t", ";", " ", "f", "i", "l", "e", "n", "a", "m", "e", "=", "\"", "\"">>)}

FilenameUrls ==
    {<<"h", "t", "t", "p", ":", "/", "/", "x", ".", "i", "o", "/", "o", "/", "f", ".", "t", "x", "t">>, <<"h", "t", "t", "p", ":", "/", "/", "x", ".", "i", "o", "/", "o">>, <<"h", "t", "t", "p", ":", "/", "/", "x", ".", "i", "o", "/">>, <<"h", "t", "t", "p", "s", ":", "/", "/", "x", ".", "i", "o", "/", "a", ".", "b", "/", "o">>}

\* the frontmatter lines both renderings emit for an optional field
field_line(key, value) == IF IsSome(value) THEN key \o Unwrap(value) \o <<"\n">> ELSE <<>>

truncated_line(response) ==
    IF response.truncated = Some(TRUE) THEN <<"t", "r", "u", "n", "c", "a", "t", "e", "d", ":", " ", "t", "r", "u", "e", "\n">> ELSE <<>>

\* fetchkit-cli main.rs: format_md_with_frontmatter
format_md_with_frontmatter(response) ==
    <<"-", "-", "-", "\n">> \o <<"u", "r", "l", ":", " ">> \o response.url \o <<"\n">>
       \o <<"s", "t", "a", "t", "u", "s", "_", "c", "o", "d", "e", ":", " ">> \o u16_to_string(response.status_code) \o <<"\n">>
       \o field_line(<<"s", "o", "u", "r", "c", "e", "_", "c", "o", "n", "t", "e", "n", "t", "_", "t", "y", "p", "e", ":", " ">>, response.content_type)
       \o field_line(<<"s", "o", "u", "r", "c", "e", "_", "s", "i", "z", "e", ":", " ">>,
                     IF IsSome(response.size) THEN Some(u16_to_string(Unwrap(response.size)))
                     ELSE None)
       \o field_line(<<"l", "a", "s", "t", "_", "m", "o", "d", "i", "f", "i", "e", "d", ":", " ">>, response.last_modified)
       \o field_line(<<"f", "i", "l", "e", "n", "a", "m", "e", ":", " ">>, response.filename)
       \o truncated_line(response)
       \o <<"-", "-", "-", "\n">>
       \o (IF IsSome(response.content) THEN Unwrap(response.content)
           ELSE IF IsSome(response.error) THEN Unwrap(response.error)
           ELSE <<>>)

\* fetchkit-cli mcp.rs: format_md_with_frontmatter
mcp_format_md_with_frontmatter(response) ==
    <<"-", "-", "-", "\n">> \o <<"u", "r", "l", ":", " ">> \o response.url \o <<"\n">>
       \o <<"s", "t", "a", "t", "u", "s", "_", "c", "o", "d", "e", ":", " ">> \o u16_to_string(response.status_code) \o <<"\n">>
       \o field_line(<<"c", "o", "n", "t", "e", "n", "t", "_", "t", "y", "p", "e", ":", " ">>, response.content_type)
       \o field_line(<<"s", "i", "z", "e", ":", " ">>,
                     IF IsSome(response.size) THEN Some(u16_to_string(Unwrap(response.size)))
                     ELSE None)
       \o field_line(<<"l", "a", "s", "t", "_", "m", "o", "d", "i", "f", "i", "e", "d", ":", " ">>, response.last_modified)
       \o field_line(<<"f", "i", "l", "e", "n", "a", "m", "e", ":", " ">>, response.filename)
       \o truncated_line(response)
       \o field_line(<<"e", "r", "r", "o", "r", ":", " ">>, response.error)
       \o <<"-", "-", "-", "\n">>
       \o (IF IsSome(response.content) THEN Unwrap(response.content) ELSE <<>>)

\* responses with every combination of present and absent optional fields
Responses ==
    {[DefaultResponse EXCEPT
         !.url = PlainUrl, !.status_code = 200, !.content_type = ct, !.size = sz,
         !.last_modified = lm, !.filename = fn, !.truncated = tr, !.content = c,
         !.error = e] :
        ct \in {None, Some(TEXT_PLAIN)}, sz \in {None, Some(7)},
        lm \in {None, Some(<<"M", "o", "n">>)}, fn \in {None, Some(<<"f", ".", "t", "x", "t">>)},
        tr \in {None, Some(TRUE), Some(FALSE)}, c \in {None, Some(<<"c">>)},
        e \in {None, Some(<<"e">>)}}

MaxNest == 4

\* skip-element openers and closers, a self-closing skip tag and a non-skip
\* tag, each followed by a character of text
SkipTokens ==
    {<<"<", "s", "c", "r", "i", "p", "t", ">", "x">>, <<"<", "s", "t", "y", "l", "e", ">", "<", "b", ">", "x">>,
     <<"<", "/", "s", "c", "r", "i", "p", "t", ">", "x">>, <<"<", "/", "s", "t", "y", "l", "e", ">", "<", "b", ">", "x">>,
     <<"<", "s", "v", "g", " ", "/", ">", "x">>}

SkipDocs == {Concat(ts) : ts \in SeqsUpTo(SkipTokens, MaxNest)}

\* a script opener, a style opener, the script closer, the style closer
ScriptStyleDoc ==
    <<"<", "s", "c", "r", "i", "p", "t", ">", "x">>
    \o <<"<", "s", "t", "y", "l", "e", ">", "<", "b", ">", "x">>
    \o <<"<", "/", "s", "c", "r", "i", "p", "t", ">", "x">>
    \o <<"<", "/", "s", "t", "y", "l", "e", ">", "<", "b", ">", "x">>

MaxName == 12

\* entity names and the character each stands for: the named entities, valid
\* numeric ones (two of them padded with zeros), and names that are unknown,
\* malformed or outside the range of char
EntityNames ==
    {<<<<"a", "m", "p">>, "&">>, <<<<"l", "t">>, "<">>, <<<<"g", "t">>, ">">>, <<<<"q", "u", "o", "t">>, "\"">>,
     <<<<"a", "p", "o", "s">>, "U+39">>, <<<<"#", "3", "9">>, "U+39">>, <<<<"n", "b", "s", "p">>, " ">>,
     <<<<"m", "d", "a", "s", "h">>, "U+8212">>, <<<<"n", "d", "a", "s", "h">>, "U+8211">>, <<<<"c", "o", "p", "y">>, "U+169">>,
     <<<<"r", "e", "g">>, "U+174">>,
     <<<<"#", "6", "5">>, "A">>, <<<<"#", "x", "4", "1">>, "A">>, <<<<"#", "6", "0">>, "<">>, <<<<"#", "x", "3", "c">>, "<">>,
     <<<<"#", "x", "3", "C">>, "<">>, <<<<"#", "8", "2", "1", "2">>, "U+8212">>, <<<<"#", "x", "a", "9">>, "U+169">>,
     <<<<"#", "0", "0", "0", "0", "0", "0", "0", "0", "6", "5">>, "A">>, <<<<"#", "0", "0", "0", "0", "0", "0", "0", "0", "0", "6", "5">>, "A">>, <<<<"#", "x", "0", "0", "0", "0", "0", "0", "0", "0", "4", "1">>, "A">>,
     <<<<"f", "o", "o">>, "&">>, <<<<"A", "M", "P">>, "&">>, <<<<>>, "&">>, <<<<"#">>, "&">>, <<<<"#", "x">>, "&">>,
     <<<<"#", "6", "a">>, "&">>, <<<<"#", "-", "1">>, "&">>, <<<<"#", "x", "D", "8", "0", "0">>, "&">>, <<<<"#", "1", "1", "1", "4", "1", "1", "2">>, "&">>,
     <<<<"#", "x", "1", "1", "0", "0", "0", "0">>, "&">>}

\* texts that start with a terminated entity, with an "&" followed by a
\* run of letters and then the end, a ";" or a whitespace, or with a letter
EntityInputs ==
    {<<"&">> \o e[1] \o <<";", "z">> : e \in EntityNames}
    \cup {<<"&">> \o [k \in 1..n |-> "a"] \o t :
             n \in 0..MaxName, t \in {<<>>, <<";", "z">>, <<" ", "z">>, <<"\t", "z">>}}
    \cup {<<"z">>}

MaxTags == 3

\* an "&" before a short and before a nine-letter unknown name, a script
\* opener with a character of text, a whitespace and a ";"
AmpTokens ==
    {<<"&", "x">>, <<"&", "a", "b", "c", "d", "e", "f", "g", "h", "i">>,
     <<"<", "s", "c", "r", "i", "p", "t", ">", "y">>, <<" ">>, <<";">>}

AmpDocs == {Concat(ts) : ts \in SeqsUpTo(AmpTokens, MaxTags)}

\* self-closing elements in the spellings <x/> and <x />, with the Markdown
\* the on-open effect of x gives between the texts "a" and "b"
SelfClosingCases ==
    {[name |-> n[1], slash |-> s, effect |-> n[2]] :
        n \in {<<<<"b", "r">>, <<"\n">>>>, <<<<"h", "r">>, <<"\n", "-", "-", "-", "\n">>>>,
               <<<<"s", "c", "r", "i", "p", "t">>, <<>>>>, <<<<"s", "v", "g">>, <<>>>>},
        s \in {<<"/">>, <<" ", "/">>}}

SelfClosingDoc(c) == <<"a", "<">> \o c.name \o c.slash \o <<">", "b">>

SelfClosingDocs == {SelfClosingDoc(c) : c \in SelfClosingCases}

\* list openers and closers and a character of text
ListTokens == {<<"<", "u", "l", ">">>, <<"<", "/", "u", "l", ">">>, <<"<", "O", "L", ">">>, <<"<", "/", "o", "l", ">">>, <<"x">>}

ListDocs == {Concat(ts) : ts \in SeqsUpTo(ListTokens, MaxTags)}

\* rule openers, a rule closer and a character of text
RuleTokens == {<<"<", "h", "r", ">">>, <<"<", "H", "R", " ", "/", ">">>, <<"<", "/", "h", "r", ">">>, <<"x">>}

RuleDocs == {Concat(ts) : ts \in SeqsUpTo(RuleTokens, MaxTags)}

\* a blockquote opener and a closer, each with a line of text, a newline
\* and a script opener and closer
QuoteTokens ==
    {<<"<", "b", "l", "o", "c", "k", "q", "u", "o", "t", "e", ">", "x", "\n">>, <<"<", "/", "B", "L", "O", "C", "K", "Q", "U", "O", "T", "E", ">", "x", "\n">>, <<"\n">>,
     <<"<", "s", "c", "r", "i", "p", "t", ">">>, <<"<", "/", "s", "c", "r", "i", "p", "t", ">">>}

QuoteDocs == {Concat(ts) : ts \in SeqsUpTo(QuoteTokens, MaxTags)}

\* documents for html_to_markdown alone
MarkdownLoopDocs == ListDocs \cup RuleDocs \cup QuoteDocs

MaxDepth == 3

\* d lists nested in each other, each with one item of text x
NestedListDoc(d) ==
    Concat([k \in 1..d |-> <<"<", "u", "l", ">", "<", "l", "i", ">", "x">>]) \o Concat([k \in 1..d |-> <<"<", "/", "u", "l", ">">>])

NestedListDocs == {NestedListDoc(d) : d \in 1..MaxDepth}

\* the attributes of an opening a tag, with the value of its href attribute
\* (None when it has no attribute of that name)
AnchorCases ==
    {[attrs |-> <<" ", "h", "r", "e", "f", "=", "\"", "u", "\"">>, href |-> Some(<<"u">>)],
     [attrs |-> <<" ", "H", "R", "E", "F", "=", "U+39", "u", "U+39">>, href |-> Some(<<"u">>)],
     [attrs |-> <<" ", "h", "r", "e", "f", "=", "u">>, href |-> Some(<<"u">>)],
     [attrs |-> <<" ", "c", "l", "a", "s", "s", "=", "\"", "c", "\"", " ", "h", "r", "e", "f", "=", "\"", "u", "/", "v", "\"">>, href |-> Some(<<"u", "/", "v">>)],
     [attrs |-> <<>>, href |-> None],
     [attrs |-> <<" ", "n", "a", "m", "e", "=", "\"", "n", "\"">>, href |-> None],
     [attrs |-> <<" ", "d", "a", "t", "a", "-", "h", "r", "e", "f", "=", "\"", "u", "\"">>, href |-> None]}

\* a link with the text t
AnchorDoc(c) == <<"<", "a">> \o c.attrs \o <<">", "t", "<", "/", "a", ">">>

AnchorDocs == {AnchorDoc(c) : c \in AnchorCases}

Entries ==
    {"is_html", "html_to_markdown", "html_to_text", "clean_whitespace",
     "filter_excessive_newlines", "decode_entity", "extract_filename",
     "main::format_md_with_frontmatter", "mcp::format_md_with_frontmatter"}

\* the arguments enumerated for a call of f
CallInputs(f) ==
    IF f = "is_html"
    THEN {[content_type |-> ct, body |-> b] : ct \in ContentTypes, b \in Bodies}
    ELSE IF f \in {"html_to_markdown", "html_to_text"}
    THEN {[html |-> h] : h \in HtmlInputs \cup MarkupDocs \cup SelfClosingDocs
                                 \cup NestedListDocs \cup AnchorDocs}
    ELSE IF f \in {"clean_whitespace", "filter_excessive_newlines"}
    THEN {[s |-> s] : s \in WsInputs}
    ELSE IF f = "decode_entity" THEN {[s |-> s] : s \in EntityInputs}
    ELSE IF f = "extract_filename"
    THEN {[disposition |-> d, url |-> u] : d \in Dispositions, u \in FilenameUrls}
    ELSE {[response |-> r] : r \in Responses}

\* the converters followed one pass of their loop at a time
LoopInputs ==
    {[entry |-> f, args |-> [html |-> h]] :
        f \in {"html_to_markdown", "html_to_text"}, h \in SkipDocs \cup AmpDocs}
    \cup {[entry |-> "html_to_markdown", args |-> [html |-> h]] : h \in MarkdownLoopDocs}

\* the loop position and the locals on entry to the loop
loop_start(f) ==
    [next |-> 1, st |-> IF f = "html_to_markdown" THEN markdown_start ELSE text_start]

ConvInit ==
    /\ \/ \E f \in Entries :
             \E a \in CallInputs(f) :
                /\ entry = f
                /\ args = Some(a)
                /\ returned = None
                /\ pc = "call"
       \/ \E in \in LoopInputs :
             /\ entry = in.entry
             /\ args = Some(in.args)
             /\ returned = Some(loop_start(in.entry))
             /\ pc = "loop"
    /\ request = NewRequest(<<>>)
    /\ options = FetchDefaults
    /\ server = PlainServer
    /\ fetchers = <<>>
    /\ parsed_url = None
    /\ matchesCalled = <<>>
    /\ fetchCalled = <<>>
    /\ httpSent = <<>>
    /\ fetcherResult = Pending
    /\ outcome = Pending
    /\ now = 0
    /\ clientDeadline = None
    /\ deadline = None
    /\ stream = <<>>
    /\ ready = FALSE
    /\ body = <<>>
    /\ consumed = <<>>
    /\ readerOut = None
    /\ stdin = <<>>
    /\ cursor = 0
    /\ current = None
    /\ stdout = <<>>
    /\ stderr = <<>>
    /\ callbacks = <<>>

pipelineVars ==
    <<inputVars, adapterVars, regVars, httpSent, fetcherResult, outcome, now, clientDeadline,
      readerVars>>

\* convert::is_html
CallIsHtml ==
    /\ pc = "call" /\ entry = "is_html"
    /\ returned' = Some(is_html(Unwrap(args).content_type, Unwrap(args).body))
    /\ pc' = "done"
    /\ UNCHANGED <<pipelineVars, args>>

\* convert::html_to_markdown: the call returns a String or panics
CallHtmlToMarkdown ==
    /\ pc = "call" /\ entry = "html_to_markdown"
    /\ IF html_to_markdown_panics(Unwrap(args).html)
       THEN /\ pc' = "panicked"
            /\ UNCHANGED returned
       ELSE /\ returned' = Some(html_to_markdown(Unwrap(args).html))
            /\ pc' = "done"
    /\ UNCHANGED <<pipelineVars, args>>

\* convert::html_to_text
CallHtmlToText ==
    /\ pc = "call" /\ entry = "html_to_text"
    /\ returned' = Some(html_to_text(Unwrap(args).html))
    /\ pc' = "done"
    /\ UNCHANGED <<pipelineVars, args>>

\* convert::clean_whitespace
CallCleanWhitespace ==
    /\ pc = "call" /\ entry = "clean_whitespace"
    /\ returned' = Some(clean_whitespace(Unwrap(args).s))
    /\ pc' = "done"
    /\ UNCHANGED <<pipelineVars, args>>

\* convert::filter_excessive_newlines
CallFilterExcessiveNewlines ==
    /\ pc = "call" /\ entry = "filter_excessive_newlines"
    /\ returned' = Some(filter_excessive_newlines(Unwrap(args).s))
    /\ pc' = "done"
    /\ UNCHANGED <<pipelineVars, args>>

\* convert::decode_entity(c, chars) with c the first character of the text
\* and chars positioned after it: the character returned and the position
\* of the first character the iterator has not consumed
CallDecodeEntity ==
    /\ pc = "call" /\ entry = "decode_entity"
    /\ returned' = Some(decode_entity(Unwrap(args).s, 1))
    /\ pc' = "done"
    /\ UNCHANGED <<pipelineVars, args>>

\* default::extract_filename on the Content-Disposition header of the
\* response, if any, and the request URL
CallExtractFilename ==
    /\ pc = "call" /\ entry = "extract_filename"
    /\ returned' = Some(extract_filename(Unwrap(args).disposition, Unwrap(args).url))
    /\ pc' = "done"
    /\ UNCHANGED <<pipelineVars, args>>

\* fetchkit-cli main.rs: format_md_with_frontmatter
CallCliFormatMd ==
    /\ pc = "call" /\ entry = "main::format_md_with_frontmatter"
    /\ returned' = Some(format_md_with_frontmatter(Unwrap(args).response))
    /\ pc' = "done"
    /\ UNCHANGED <<pipelineVars, args>>

\* fetchkit-cli mcp.rs: format_md_with_frontmatter
CallMcpFormatMd ==
    /\ pc = "call" /\ entry = "mcp::format_md_with_frontmatter"
    /\ returned' = Some(mcp_format_md_with_frontmatter(Unwrap(args).response))
    /\ pc' = "done"
    /\ UNCHANGED <<pipelineVars, args>>

\* html_to_markdown: one pass of the while loop
MarkdownIteration ==
    /\ pc = "loop" /\ entry = "html_to_markdown"
    /\ Unwrap(returned).next <= Len(Unwrap(args).html)
    /\ ~Unwrap(returned).st.panicked
    /\ returned' = Some(markdown_iteration(Unwrap(args).html, Unwrap(returned).next,
                                           Unwrap(returned).st))
    /\ UNCHANGED <<pipelineVars, args, pc>>

\* html_to_markdown: the input is exhausted and the output is returned
MarkdownReturn ==
    /\ pc = "loop" /\ entry = "html_to_markdown"
    /\ ~(Unwrap(returned).next <= Len(Unwrap(args).html) /\ ~Unwrap(returned).st.panicked)
    /\ IF Unwrap(returned).st.panicked
       THEN pc' = "panicked" /\ returned' = None
       ELSE pc' = "done" /\ returned' = Some(clean_whitespace(Unwrap(returned).st.output))
    /\ UNCHANGED <<pipelineVars, args>>

\* html_to_text: one pass of the while loop
TextIteration ==
    /\ pc = "loop" /\ entry = "html_to_text"
    /\ Unwrap(returned).next <= Len(Unwrap(args).html)
    /\ returned' = Some(text_iteration(Unwrap(args).html, Unwrap(returned).next,
                                       Unwrap(returned).st))
    /\ UNCHANGED <<pipelineVars, args, pc>>

\* html_to_text: the input is exhausted and the output is returned
TextReturn ==
    /\ pc = "loop" /\ entry = "html_to_text"
    /\ Unwrap(returned).next > Len(Unwrap(args).html)
    /\ pc' = "done" /\ returned' = Some(clean_whitespace(Unwrap(returned).st.output))
    /\ UNCHANGED <<pipelineVars, args>>

ConvNext ==
    \/ CallIsHtml
    \/ CallHtmlToMarkdown
    \/ CallHtmlToText
    \/ CallCleanWhitespace
    \/ CallFilterExcessiveNewlines
    \/ CallDecodeEntity
    \/ CallExtractFilename
    \/ CallCliFormatMd
    \/ CallMcpFormatMd
    \/ MarkdownIteration
    \/ MarkdownReturn
    \/ TextIteration
    \/ TextReturn

ConvSpec == ConvInit /\ [][ConvNext]_vars

-----------------------------------------------------------------------------
(* Properties of the conversion functions.                                 *)

Called(f) == entry = f /\ pc = "done"

\* C17: is_html(content_type, body) is true iff the declared content type,
\* lower-cased, contains text/html or application/xhtml, or the body with
\* its leading whitespace removed starts with "<!DOCTYPE" or "<html>"
\* whatever the letter case (so "<!doctype html>" and "<HTML>" bodies are
\* detected under a wrong content type).
C17_IsHtmlIgnoresCase ==
    Called("is_html") =>
        LET content_type == Unwrap(args).content_type
            start == to_lowercase(trim_start(Unwrap(args).body))
        IN  Unwrap(returned) <=>
               \/ /\ IsSome(content_type)
                  /\ \/ contains(to_lowercase(Unwrap(content_type)), <<"t", "e", "x", "t", "/", "h", "t", "m", "l">>)
                     \/ contains(to_lowercase(Unwrap(content_type)), <<"a", "p", "p", "l", "i", "c", "a", "t", "i", "o", "n", "/", "x", "h", "t", "m", "l">>)
               \/ starts_with(start, <<"<", "!", "d", "o", "c", "t", "y", "p", "e">>)
               \/ starts_with(start, <<"<", "h", "t", "m", "l", ">">>)

Converted == Called("html_to_markdown") \/ Called("html_to_text")

\* the input has one script element, with no "<" anywhere before it, and
\* no S outside it
SkipElementAfterText ==
    /\ Cardinality({j \in 1..Len(Unwrap(args).html) : Unwrap(args).html[j] = "S"}) = 1
    /\ \E k \in 1..(Len(Unwrap(args).html) - Len(SkipElement) + 1) :
          /\ SubSeq(Unwrap(args).html, k, k + Len(SkipElement) - 1) = SkipElement
          /\ \A j \in 1..(k - 1) : Unwrap(args).html[j] # "<"

\* C18: in both modes no character lying between an opening skip-element tag
\* and its matching closing tag appears in the output, whatever text
\* precedes the opening tag: the S held by a script element that follows
\* tag-free text is not in the output.
C18_SkippedContentExcluded ==
    (Converted /\ SkipElementAfterText) =>
        \A i \in 1..Len(Unwrap(returned)) : Unwrap(returned)[i] # "S"

\* C19: in both modes the output holds no surviving tag: a "<" appears in
\* the output only as the result of decoding an entity of the input.
C19_NoSurvivingTag ==
    (Converted /\ \E i \in 1..Len(Unwrap(returned)) : Unwrap(returned)[i] = "<") =>
        \/ contains(to_lowercase(Unwrap(args).html), <<"&", "l", "t", ";">>)
        \/ contains(to_lowercase(Unwrap(args).html), <<"&", "#", "6", "0", ";">>)
        \/ contains(to_lowercase(Unwrap(args).html), <<"&", "#", "x", "3", "c", ";">>)

\* C20: html_to_markdown and html_to_text are total: for every input,
\* unterminated and empty tags, unterminated entities and tags with
\* non-ASCII characters included, the call returns a string and never aborts.
C20_ConvertersTotal ==
    entry \in {"html_to_markdown", "html_to_text"} => pc # "panicked"

-----------------------------------------------------------------------------
(* Properties of the whitespace normalizers.                               *)

\* the longest run of newlines in s is shorter than three
NewlinesCapped(s) ==
    \A i \in 1..(Len(s) - 2) : ~(s[i] = "\n" /\ s[i + 1] = "\n" /\ s[i + 2] = "\n")

\* C21: clean_whitespace is idempotent, clean_whitespace(clean_whitespace(s))
\* = clean_whitespace(s) for every s, and so is filter_excessive_newlines.
C21_NormalizersIdempotent ==
    /\ Called("clean_whitespace") =>
          clean_whitespace(Unwrap(returned)) = Unwrap(returned)
    /\ Called("filter_excessive_newlines") =>
          filter_excessive_newlines(Unwrap(returned)) = Unwrap(returned)

\* C22: the output of clean_whitespace and the output of
\* filter_excessive_newlines hold no run of three or more newlines, also
\* when the input's newlines are separated by spaces or tabs only.
C22_NewlineCap ==
    (Called("clean_whitespace") \/ Called("filter_excessive_newlines")) =>
        NewlinesCapped(Unwrap(returned))

\* C23: the output of clean_whitespace has no two consecutive spaces, no
\* space immediately before a newline, no whitespace character other than
\* space and newline, and no leading or trailing whitespace.
C23_CleanWhitespaceShape ==
    Called("clean_whitespace") =>
        LET out == Unwrap(returned)
        IN  /\ \A i \in 1..(Len(out) - 1) :
                  /\ ~(out[i] = " " /\ out[i + 1] = " ")
                  /\ ~(out[i] = " " /\ out[i + 1] = "\n")
            /\ \A i \in 1..Len(out) : is_whitespace(out[i]) => out[i] \in {" ", "\n"}
            /\ out # <<>> => ~is_whitespace(out[1]) /\ ~is_whitespace(out[Len(out)])

C23_Witness ==
    /\ Called("clean_whitespace")
    /\ Unwrap(args).s = <<" ", "a", "\t", " ", "\n", "a">>
    /\ Unwrap(returned) = <<"a", "\n", "a">>

\* C24: the content of every response of the generic GET path holds at most
\* two consecutive newlines, for every body and conversion mode, truncated
\* or not.
C24_ContentNewlineCap ==
    (pc = "done" /\ OnGenericPath /\ outcome.ok /\ IsSome(outcome.resp.content)) =>
        NewlinesCapped(Unwrap(outcome.resp.content))

-----------------------------------------------------------------------------
(* Properties of decode_entity.                                            *)

\* the call decoded the text "&" name ";" ...
Terminated(e) ==
    /\ Called("decode_entity")
    /\ starts_with(Unwrap(args).s, <<"&">> \o e[1] \o <<";">>)

\* the character the call returned for the entity, with the iterator left
\* after the ";"
DecodedAs(e) ==
    /\ Unwrap(returned).ch = e[2]
    /\ Unwrap(returned).next = Len(e[1]) + 3

NoSemicolonAhead ==
    LET s == Unwrap(args).s
    IN  /\ Called("decode_entity") /\ s[1] = "&"
        /\ \E j \in 2..Len(s) :
              /\ is_whitespace(s[j]) \/ j > 11
              /\ \A k \in 2..j : s[k] # ";"

\* C30: when decode_entity finds no ";" it consumes at most 10 characters
\* after the "&" before it gives up and returns a literal "&"; it gives up
\* at the first whitespace character, which it leaves unconsumed.
C30_AbortAfterTen ==
    NoSemicolonAhead =>
        LET s == Unwrap(args).s
            next == Unwrap(returned).next
        IN  /\ Unwrap(returned).ch = "&"
            /\ next - 2 <= 10
            /\ (\E j \in 2..12 : j <= Len(s) /\ is_whitespace(s[j])) =>
                  /\ is_whitespace(s[next])
                  /\ \A k \in 2..(next - 1) : ~is_whitespace(s[k])

-----------------------------------------------------------------------------
(* Properties of the Markdown rendering.                                   *)

Hashes(n) == [k \in 1..n |-> "#"]

\* C26: in Markdown mode an opening hN tag (N in 1..6) emits a newline, N
\* "#" characters and a space, and the closing tag two newlines, so that the
\* returned Markdown has the line "#"xN, space, heading text; a text wrapped
\* in strong or b is returned as **text**.
C26_HeadingsAndBold ==
    Called("html_to_markdown") =>
        /\ \A c \in HeadingCases :
              Unwrap(args).html = HeadingDoc(c) =>
                 /\ markdown_scan(Unwrap(args).html).output =
                       c.pre \o <<"\n">> \o Hashes(c.level) \o <<" ">> \o c.text
                             \o <<"\n", "\n">> \o c.post
                 /\ \E k \in 1..Len(split(Unwrap(returned), "\n")) :
                       split(Unwrap(returned), "\n")[k] = Hashes(c.level) \o <<" ">> \o c.text
        /\ \A c \in BoldCases :
              Unwrap(args).html = BoldDoc(c) =>
                 Unwrap(returned) = c.pre \o <<"*", "*">> \o c.text \o <<"*", "*">> \o c.post

C26_Witness ==
    /\ Called("html_to_markdown")
    /\ Unwrap(args).html =
          HeadingDoc([pre |-> <<"x">>, level |-> 3, h |-> "H", attrs |-> <<>>,
                      text |-> <<"a", " ", "b">>, post |-> <<"y">>])
    /\ Unwrap(returned) =
          <<"x", "\n", "#", "#", "#", " ", "a", " ", "b", "\n", "\n", "y">>

-----------------------------------------------------------------------------
(* Properties of the filename derivation.                                  *)

\* the value of the header's filename= parameter, the parameter name found
\* in any letter case; None when the header has no such parameter
ParameterValue(value) ==
    LET start == find(to_lowercase(value), <<"f", "i", "l", "e", "n", "a", "m", "e", "=">>)
        rest == SubSeq(value, start + 9, Len(value))
        quoted == Tail(rest)
        stop == find_char(rest, Whitespace \cup {";"})
    IN  IF start = 0 THEN None
        ELSE IF rest # <<>> /\ Head(rest) = "\""
        THEN Some(SubSeq(quoted, 1, find_char(quoted, {"\""}) - 1))
        ELSE Some(IF stop = 0 THEN rest ELSE SubSeq(rest, 1, stop - 1))

\* the last path segment of the URL
LastSegment(url) ==
    LET segments == split(url, "/")
    IN  IF Len(segments) <= 3 THEN <<>> ELSE segments[Len(segments)]

\* C27: filename is the value of the Content-Disposition header's filename=
\* parameter when it has one (quoted or bare, the name in any letter case,
\* the value ended by the closing quote or, bare, by whitespace or a
\* semicolon); otherwise the last path segment of the URL when it is not
\* empty and contains a "."; otherwise absent.
C27_FilenameDerivation ==
    Called("extract_filename") =>
        LET disposition == Unwrap(args).disposition
            fromHeader == IF IsSome(disposition) THEN ParameterValue(Unwrap(disposition))
                          ELSE None
            last == LastSegment(Unwrap(args).url)
        IN  Unwrap(returned) =
               IF IsSome(fromHeader) THEN fromHeader
               ELSE IF last # <<>> /\ contains(last, <<".">>) THEN Some(last)
               ELSE None

-----------------------------------------------------------------------------
(* Properties of the frontmatter rendering.                                *)

Delimiter == <<"-", "-", "-", "\n">>

\* what follows the closing delimiter: content if present, else error
RenderedBody(response) ==
    IF IsSome(response.content) THEN Unwrap(response.content)
    ELSE IF IsSome(response.error) THEN Unwrap(response.error)
    ELSE <<>>

\* C28: the CLI and the MCP format_md_with_frontmatter are the same function
\* of the response: the frontmatter block between two "---" lines, then the
\* content if present, else the error if present; the error never appears
\* inside the frontmatter block.
C28_SameFrontmatter ==
    /\ Called("main::format_md_with_frontmatter") =>
          Unwrap(returned) = mcp_format_md_with_frontmatter(Unwrap(args).response)
    /\ Called("mcp::format_md_with_frontmatter") =>
          Unwrap(returned) = format_md_with_frontmatter(Unwrap(args).response)
    /\ (Called("main::format_md_with_frontmatter")
           \/ Called("mcp::format_md_with_frontmatter")) =>
          /\ starts_with(Unwrap(returned), Delimiter)
          /\ ends_with(Unwrap(returned), Delimiter \o RenderedBody(Unwrap(args).response))
          /\ ~contains(Unwrap(returned), <<"e", "r", "r", "o", "r", ":">>)


\* the locals of the converter whose loop is being followed
Locals == Unwrap(returned).st

\* the sequence s without its k-th entry
RemoveAt(s, k) == SubSeq(s, 1, k - 1) \o SubSeq(s, k + 1, Len(s))

\* the skip counter equals the length of the skip stack
SkipCounterIsStackLength ==
    pc = "loop" => Locals.in_skip_element = Len(Locals.skip_elements)

\* one pass of either loop treats the skip stack and the output as follows: an
\* opening skip tag not ending in "/" pushes its name, a closing skip tag
\* removes the rightmost entry of its name or leaves the stack alone, no other
\* input changes the stack, and text and other tags have an effect exactly
\* when the stack is empty
SkipStackStep ==
    (pc = "loop" /\ pc' = "loop") =>
        LET html == Unwrap(args).html
            i == Unwrap(returned).next
            st == Unwrap(returned).st
            st2 == Unwrap(returned').st
            stack == st.skip_elements
        IN  IF html[i] = "<"
            THEN LET tag == tag_at(html, i).tag
                     name == tag_name(tag)
                 IN  IF name \in skip_tags
                     THEN /\ st2.output = st.output
                          /\ IF ~is_closing(tag)
                             THEN st2.skip_elements =
                                      IF ends_with(tag, <<"/">>) THEN stack ELSE Append(stack, name)
                             ELSE IF \E k \in 1..Len(stack) : stack[k] = name
                             THEN \E k \in 1..Len(stack) :
                                     /\ stack[k] = name
                                     /\ \A j \in (k + 1)..Len(stack) : stack[j] # name
                                     /\ st2.skip_elements = RemoveAt(stack, k)
                             ELSE st2.skip_elements = stack
                     ELSE /\ st2.skip_elements = stack
                          /\ IF stack # <<>> THEN st2 = st
                             ELSE st2 = IF entry = "html_to_markdown" THEN markdown_tag(st, tag)
                                        ELSE text_tag(st, tag)
            ELSE /\ st2.skip_elements = stack
                 /\ (stack # <<>>) <=> (st2.output = st.output)

\* the first position of ScriptStyleDoc after its script closer, and the
\* position of its style closer
AfterScriptCloser == Len(<<"<", "s", "c", "r", "i", "p", "t", ">", "x", "<", "s", "t", "y", "l", "e", ">", "<", "b", ">", "x", "<", "/", "s", "c", "r", "i", "p", "t", ">">>) + 1
StyleCloser == Len(<<"<", "s", "c", "r", "i", "p", "t", ">", "x", "<", "s", "t", "y", "l", "e", ">", "<", "b", ">", "x", "<", "/", "s", "c", "r", "i", "p", "t", ">", "x">>) + 1

\* in ScriptStyleDoc the script closer leaves the style entry on the stack,
\* and nothing is output before the style closer has been read
ScriptStyleSuppressed ==
    (pc = "loop" /\ Unwrap(args).html = ScriptStyleDoc) =>
        /\ Unwrap(returned).next <= StyleCloser => Locals.output = <<>>
        /\ Unwrap(returned).next \in AfterScriptCloser..StyleCloser =>
               Locals.skip_elements = <<<<"s", "t", "y", "l", "e">>>>
        /\ Unwrap(returned).next > Len(ScriptStyleDoc) =>
               Locals.skip_elements = <<>> /\ Locals.output # <<>>

\* C29: in both converters an opening non-self-closing skip tag pushes its
\* name, a closing skip tag removes the rightmost stack entry of the same
\* name (none: the stack is unchanged), text and non-skip tags are discarded
\* exactly while the stack is non-empty, the skip counter always equals the
\* stack length, and after a script opener, a style opener and a script
\* closer the output stays suppressed until the style closer
C29_SkipStackDiscipline ==
    /\ [](SkipCounterIsStackLength /\ ScriptStyleSuppressed)
    /\ [][SkipStackStep]_vars

\* the script closer of ScriptStyleDoc has been read: only the style entry is
\* left and nothing has been output
C29_Witness ==
    /\ pc = "loop" /\ Unwrap(args).html = ScriptStyleDoc
    /\ Unwrap(returned).next = StyleCloser
    /\ Locals.skip_elements = <<<<"s", "t", "y", "l", "e">>>>
    /\ Locals.in_skip_element = 1
    /\ Locals.output = <<>>

\* the position in rest of its first ";" or whitespace, 0 without one
EntityStop(rest) ==
    LET hits == {k \in 1..Len(rest) : rest[k] = ";" \/ is_whitespace(rest[k])}
    IN  IF hits = {} THEN 0 ELSE MinOf(hits)

\* a name that is none of the named entities and not numeric
Unrecognized(name) ==
    /\ name \notin {<<"a", "m", "p">>, <<"l", "t">>, <<"g", "t">>, <<"q", "u", "o", "t">>,
                    <<"a", "p", "o", "s">>, <<"n", "b", "s", "p">>, <<"m", "d", "a", "s", "h">>,
                    <<"n", "d", "a", "s", "h">>, <<"c", "o", "p", "y">>, <<"r", "e", "g">>}
    /\ name = <<>> \/ Head(name) # "#"

\* how decode_entity gives up on the one-byte characters rest that follow an
\* "&": at a whitespace, at the length limit, or at the end of the input
\* with an unrecognized name; "no" when it does not
GivesUp(rest) ==
    LET stop == EntityStop(rest)
    IN  IF stop > 0 /\ stop <= 12
        THEN IF is_whitespace(rest[stop]) THEN "whitespace" ELSE "no"
        ELSE IF Len(rest) >= 12 THEN "length"
        ELSE IF Unrecognized(rest) THEN "end"
        ELSE "no"

\* the number of characters after the "&" that have been taken by then
Consumed(rest) ==
    IF GivesUp(rest) = "whitespace" THEN EntityStop(rest) - 1
    ELSE IF GivesUp(rest) = "length" THEN 11
    ELSE Len(rest)

\* a pass of either loop that starts at an "&" outside skip elements on
\* which decode_entity gives up
GiveUpPass ==
    /\ pc = "loop" /\ pc' = "loop"
    /\ Unwrap(args).html[Unwrap(returned).next] = "&"
    /\ Locals.skip_elements = <<>>
    /\ GivesUp(SubSeq(Unwrap(args).html, Unwrap(returned).next + 1,
                      Len(Unwrap(args).html))) # "no"

\* C31: when decode_entity gives up (at a whitespace, at the length limit,
\* or at the end of the input with an unrecognized name) only "&" is emitted
\* and the characters consumed after it are discarded; the scan does not
\* stop at "<" or ">", so a tag opener inside the consumed span is entity
\* text: the loop continues after the span and no local but the output
\* changes (no skip element is pushed)
C31_GiveUpDiscardsSpan ==
    [][GiveUpPass =>
          LET html == Unwrap(args).html
              i == Unwrap(returned).next
          IN  /\ Unwrap(returned').st = [Locals EXCEPT !.output = Append(@, "&")]
              /\ Unwrap(returned').next = i + 1 + Consumed(SubSeq(html, i + 1, Len(html)))]_vars

\* the script opener after "&x" has been consumed as entity text: the loop
\* is past it, nothing was pushed, and the whitespace after it is output
C31_Witness ==
    /\ pc = "loop" /\ Unwrap(args).html = <<"&", "x", "<", "s", "c", "r", "i", "p", "t", ">", "y", " ">>
    /\ Unwrap(returned).next > Len(Unwrap(args).html)
    /\ Locals.skip_elements = <<>>
    /\ Locals.output = <<"&", " ">>

\* C32: a self-closing tag is processed as a non-persistent opener of its
\* element in both spellings <x/> and <x />: html_to_markdown gives the
\* on-open effect of x (a newline for br, the rule for hr), and a
\* self-closing skip element pushes nothing, so the text after it is kept
C32_SelfClosingBothSpellings ==
    \A c \in SelfClosingCases :
        (Called("html_to_markdown") /\ Unwrap(args).html = SelfClosingDoc(c)) =>
            Unwrap(returned) = <<"a">> \o c.effect \o <<"b">>

\* the tag that the pass of the Markdown loop about to run reads outside
\* skip elements, <<>> when the pass reads text, is inside a skip element or
\* belongs to html_to_text
MarkdownTag ==
    IF /\ pc = "loop" /\ entry = "html_to_markdown"
       /\ Unwrap(returned).next <= Len(Unwrap(args).html)
       /\ Unwrap(args).html[Unwrap(returned).next] = "<"
       /\ Locals.skip_elements = <<>>
    THEN Some(tag_at(Unwrap(args).html, Unwrap(returned).next).tag)
    ELSE None

\* the pass about to run reads an opening (closing) tag of one of the names
Opens(names) ==
    /\ IsSome(MarkdownTag)
    /\ ~is_closing(Unwrap(MarkdownTag)) /\ tag_name(Unwrap(MarkdownTag)) \in names

Closes(names) ==
    /\ IsSome(MarkdownTag)
    /\ is_closing(Unwrap(MarkdownTag)) /\ tag_name(Unwrap(MarkdownTag)) \in names

\* what the pass appends to the output
Emitted == SubSeq(Unwrap(returned').st.output, Len(Locals.output) + 1,
                  Len(Unwrap(returned').st.output))

ListNames == {<<"u", "l">>, <<"o", "l">>}

\* C33: in Markdown mode the list depth is never negative: an opening ul/ol
\* increments it, a closing ul/ol decrements it without going below 0, and
\* a closing ul/ol emits a newline only when that decrement brings the depth
\* from 1 back to 0 (an unmatched closer at depth 0 emits nothing)
C33_ListDepth ==
    [][(pc' = "loop" /\ entry = "html_to_markdown") =>
          /\ Unwrap(returned').st.list_depth >= 0
          /\ Opens(ListNames) =>
                /\ Unwrap(returned').st.list_depth = Locals.list_depth + 1
                /\ Emitted = <<>>
          /\ Closes(ListNames) =>
                /\ Unwrap(returned').st.list_depth =
                       IF Locals.list_depth > 0 THEN Locals.list_depth - 1 ELSE 0
                /\ Emitted = IF Locals.list_depth = 1 THEN <<"\n">> ELSE <<>>]_vars

\* the line of an item with text x at list depth d
ItemLine(d) == repeat(<<" ", " ">>, d - 1) \o <<"-", " ", "x">>

\* C34: in the string returned by html_to_markdown a list item opened at
\* list depth d >= 1 starts a new line of 2 x (d - 1) spaces, "- " and the
\* item text, so the items of a nested list are indented by two spaces per
\* nesting level
C34_ItemIndentation ==
    \A d \in 1..MaxDepth :
        (Called("html_to_markdown") /\ Unwrap(args).html = NestedListDoc(d)) =>
            Unwrap(returned) =
                Concat([k \in 1..d |-> (IF k > 1 THEN <<"\n">> ELSE <<>>) \o ItemLine(k)])

\* C35: in Markdown mode hr emits the rule "\n---\n" on its opening tag
\* only; a closing </hr> emits nothing
C35_RuleOnOpenOnly ==
    [][(pc' = "loop" /\ entry = "html_to_markdown") =>
          /\ Opens({<<"h", "r">>}) => Emitted = <<"\n", "-", "-", "-", "\n">>
          /\ Closes({<<"h", "r">>}) => Emitted = <<>>]_vars

\* C36: in Markdown mode an opening a tag with an attribute named href emits
\* "[" immediately followed by "](value)", value being the value of that
\* attribute, before any link text; an opening a without an href attribute
\* and every closing a emit nothing, so the link text is never inside the
\* brackets
C36_LinkBeforeText ==
    \A c \in AnchorCases :
        (Called("html_to_markdown") /\ Unwrap(args).html = AnchorDoc(c)) =>
            Unwrap(returned) =
                IF IsSome(c.href) THEN <<"[", "]", "(">> \o Unwrap(c.href) \o <<")", "t">> ELSE <<"t">>

BlockquoteName == {<<"b", "l", "o", "c", "k", "q", "u", "o", "t", "e">>}

\* the pass about to run reads a literal newline of the text outside skip
\* elements, in html_to_markdown
ReadsNewline ==
    /\ pc = "loop" /\ entry = "html_to_markdown"
    /\ Unwrap(returned).next <= Len(Unwrap(args).html)
    /\ Unwrap(args).html[Unwrap(returned).next] = "\n"
    /\ Locals.skip_elements = <<>>

\* C37: in Markdown mode the blockquote flag is true exactly from an opening
\* blockquote tag, which emits "\n> ", until the next closing blockquote
\* tag, which emits "\n" (it starts false and no other pass changes it);
\* while it is true every literal newline of the text outside skip elements
\* is emitted as "\n> ", and while it is false as it is
C37_BlockquoteFlag ==
    /\ [](pc = "loop" /\ entry = "html_to_markdown" /\ Unwrap(returned).next = 1
             => ~Locals.in_blockquote)
    /\ [][(pc' = "loop" /\ entry = "html_to_markdown") =>
             /\ Opens(BlockquoteName) =>
                   Unwrap(returned').st.in_blockquote /\ Emitted = <<"\n", ">", " ">>
             /\ Closes(BlockquoteName) =>
                   ~Unwrap(returned').st.in_blockquote /\ Emitted = <<"\n">>
             /\ (~Opens(BlockquoteName) /\ ~Closes(BlockquoteName)) =>
                   Unwrap(returned').st.in_blockquote = Locals.in_blockquote
             /\ ReadsNewline =>
                   Emitted = IF Locals.in_blockquote THEN <<"\n", ">", " ">> ELSE <<"\n">>]_vars

\* a blockquote was opened and closed: the newline of the quoted line came out
\* as "\n> ", the one after the closer as it is, and the flag is false again
C37_Witness ==
    /\ pc = "loop" /\ entry = "html_to_markdown"
    /\ Unwrap(args).html = <<"<", "b", "l", "o", "c", "k", "q", "u", "o", "t", "e", ">", "x", "\n", "<", "/", "B", "L", "O", "C", "K", "Q", "U", "O", "T", "E", ">", "x", "\n">>
    /\ Unwrap(returned).next > Len(Unwrap(args).html)
    /\ ~Locals.in_blockquote
    /\ Locals.output = <<"\n", ">", " ", "x", "\n", ">", " ", "\n", "x", "\n">>

\* the list prefix is a scheme and a host and nothing more
IsOrigin(prefix) ==
    /\ IsSome(Url_parse(prefix))
    /\ prefix = Unwrap(Url_parse(prefix)).scheme \o <<":", "/", "/">>
                    \o host_str(Unwrap(Url_parse(prefix)))

OriginLists ==
    /\ \A i \in 1..Len(options.allow_prefixes) : IsOrigin(options.allow_prefixes[i])
    /\ \A i \in 1..Len(options.block_prefixes) : IsOrigin(options.block_prefixes[i])

SameHost(prefix, url) == host_str(Unwrap(Url_parse(prefix))) = host_str(url)

SameSchemeAndHost(prefix, url) ==
    Unwrap(Url_parse(prefix)).scheme = url.scheme /\ SameHost(prefix, url)

\* C38: URL filtering agrees with the URL actually dispatched: no request
\* whose parsed URL has the scheme and host of a block-list prefix is handed
\* to a fetcher, and with a non-empty allow-list every request handed to a
\* fetcher has the parsed host of some allow-list prefix (stated for lists
\* whose prefixes are a scheme and a host and nothing more)
C38_FilterAgreesWithParsedUrl ==
    (fetchCalled # <<>> /\ OriginLists) =>
        /\ \A i \in 1..Len(options.block_prefixes) :
              ~SameSchemeAndHost(options.block_prefixes[i], Unwrap(parsed_url))
        /\ options.allow_prefixes # <<>> =>
              \E i \in 1..Len(options.allow_prefixes) :
                  SameHost(options.allow_prefixes[i], Unwrap(parsed_url))

-----------------------------------------------------------------------------
(* fetchkit-cli mcp.rs: the JSON-RPC loop over stdin and stdout.  A JSON   *)
(* member that may be missing is the string "absent"; a line is a record   *)
(* of the members serde looks at.                                          *)

MaxLines == 2

INITIALIZE == <<"i", "n", "i", "t", "i", "a", "l", "i", "z", "e">>
TOOLS_LIST == <<"t", "o", "o", "l", "s", "/", "l", "i", "s", "t">>
TOOLS_CALL == <<"t", "o", "o", "l", "s", "/", "c", "a", "l", "l">>
NOTIFICATIONS_INITIALIZED == <<"n", "o", "t", "i", "f", "i", "c", "a", "t", "i", "o", "n", "s", "/", "i", "n", "i", "t", "i", "a", "l", "i", "z", "e", "d">>
NOTIFICATIONS == <<"n", "o", "t", "i", "f", "i", "c", "a", "t", "i", "o", "n", "s", "/">>
PING == <<"p", "i", "n", "g">>
FETCHKIT == <<"f", "e", "t", "c", "h", "k", "i", "t">>
FETCHKIT_MD == <<"f", "e", "t", "c", "h", "k", "i", "t", "_", "m", "d">>

\* JsonRpcResponse::success and JsonRpcResponse::error
success(id, result) == [id |-> id, result |-> Some(result), error |-> None]

error(id, code, message) ==
    [id |-> id, result |-> None, error |-> Some([code |-> code, message |-> message])]

\* serde_json::to_string of a JsonRpcResponse: a member that is None is
\* skipped (result and error stay options, None for a skipped member)
response_to_string(response) ==
    [jsonrpc |-> "2.0",
     id |-> IF IsSome(response.id) THEN Unwrap(response.id) ELSE "absent",
     result |-> response.result,
     error |-> response.error]

\* serde_json::from_str::<JsonRpcRequest>: jsonrpc and method are required,
\* an id that is missing or null becomes None, params defaults to null
from_str(line) ==
    IF line.json # "object" THEN None
    ELSE IF ~line.jsonrpc \/ line.method = None THEN None
    ELSE Some([id |-> IF line.id \in {"absent", "null"} THEN None ELSE Some(line.id),
               method |-> Unwrap(line.method),
               params |-> line.params])

\* `request.id.is_none() && request.method.starts_with("notifications/")`
is_notification(req) == ~IsSome(req.id) /\ starts_with(req.method, NOTIFICATIONS)

\* what the result of a tools/call carries: the text, and isError when set
tool_result(text, is_error) ==
    [content |-> <<[type |-> "text", text |-> text]>>, isError |-> is_error]

\* handle_fetchkit_call and handle_fetchkit_md_call after tool.execute returned
tool_response(req, result) ==
    IF result.ok
    THEN success(req.id,
                 tool_result(IF req.params.name = FETCHKIT_MD
                             THEN mcp_format_md_with_frontmatter(result.resp)
                             ELSE <<"{", "}">>,
                             None))
    ELSE success(req.id, tool_result(<<"E", "r", "r", "o", "r", ":", " ">> \o to_string(result.err), Some(TRUE)))

\* the request reaches tool.execute: a known tool whose arguments are accepted
calls_tool(req) ==
    /\ req.method = TOOLS_CALL
    /\ req.params.name \in {FETCHKIT, FETCHKIT_MD}
    /\ IsSome(req.params.url)

\* McpServer::handle_request for a request that does not reach tool.execute
handle_request(req) ==
    IF req.method = INITIALIZE THEN success(req.id, "serverInfo")
    ELSE IF req.method = TOOLS_LIST THEN success(req.id, "tools")
    ELSE IF req.method = TOOLS_CALL
    THEN IF req.params.name = FETCHKIT
         THEN error(req.id, -32602, <<"I", "n", "v", "a", "l", "i", "d", " ", "a", "r", "g", "u", "m", "e", "n", "t", "s", ":", " ">>)
         ELSE IF req.params.name = FETCHKIT_MD
         THEN error(req.id, -32602, <<"M", "i", "s", "s", "i", "n", "g", " ", "r", "e", "q", "u", "i", "r", "e", "d", " ", "a", "r", "g", "u", "m", "e", "n", "t", ":", " ", "u", "r", "l">>)
         ELSE error(req.id, -32602, <<"U", "n", "k", "n", "o", "w", "n", " ", "t", "o", "o", "l", ":", " ">> \o req.params.name)
    ELSE IF req.method = NOTIFICATIONS_INITIALIZED THEN success(req.id, "null")
    ELSE error(req.id, -32601, <<"M", "e", "t", "h", "o", "d", " ", "n", "o", "t", " ", "f", "o", "u", "n", "d", ":", " ">> \o req.method)

NoParams == [name |-> <<>>, url |-> None]

\* what lines() yields: an item that could not be read, or a line
ReadFailure == [io |-> "err"]

TextLine(line, execute) == [io |-> "ok", line |-> line, execute |-> execute]

JsonObject(jsonrpc, id, method, params) ==
    [json |-> "object", jsonrpc |-> jsonrpc, id |-> id, method |-> method,
     params |-> params]

IdMembers == {"absent", "null", "1"}

\* what tool.execute returns to the handler
ExecuteResults ==
    {Ok([DefaultResponse EXCEPT !.url = PlainUrl, !.status_code = 200]),
     Err(BlockedUrl)}

StdinItems ==
    {ReadFailure, TextLine([json |-> "empty"], Pending),
     TextLine([json |-> "invalid"], Pending),
     TextLine(JsonObject(TRUE, "1", None, NoParams), Pending),
     TextLine(JsonObject(FALSE, "1", Some(PING), NoParams), Pending)}
    \cup {TextLine(JsonObject(TRUE, id, Some(m), NoParams), Pending) :
             id \in IdMembers,
             m \in {INITIALIZE, TOOLS_LIST, NOTIFICATIONS_INITIALIZED, PING}}
    \cup {TextLine(JsonObject(TRUE, id, Some(TOOLS_CALL), [name |-> t, url |-> None]),
                   Pending) :
             id \in IdMembers, t \in {FETCHKIT, FETCHKIT_MD, PING}}
    \cup {TextLine(JsonObject(TRUE, id, Some(TOOLS_CALL),
                              [name |-> t, url |-> Some(PlainUrl)]), r) :
             id \in IdMembers, t \in {FETCHKIT, FETCHKIT_MD}, r \in ExecuteResults}

McpInit ==
    /\ entry = "mcp::run_server"
    /\ pc = "read"
    /\ stdin \in SeqsUpTo(StdinItems, MaxLines)
    /\ cursor = 0
    /\ current = None
    /\ stdout = <<>>
    /\ stderr = <<>>
    /\ callbacks = <<>>
    /\ args = None
    /\ returned = None
    /\ request = NewRequest(<<>>)
    /\ options = FetchDefaults
    /\ server = PlainServer
    /\ fetchers = <<>>
    /\ parsed_url = None
    /\ matchesCalled = <<>>
    /\ fetchCalled = <<>>
    /\ httpSent = <<>>
    /\ fetcherResult = Pending
    /\ outcome = Pending
    /\ now = 0
    /\ clientDeadline = None
    /\ deadline = None
    /\ stream = <<>>
    /\ ready = FALSE
    /\ body = <<>>
    /\ consumed = <<>>
    /\ readerOut = None

fetchVars ==
    <<inputVars, callVars, regVars, httpSent, fetcherResult, outcome, now,
      clientDeadline, readerVars>>

\* run_server: one pass of the for loop, up to `continue`, to the end of the
\* body, or to the point where a handler awaits tool.execute
McpReadLine ==
    /\ pc = "read" /\ cursor < Len(stdin)
    /\ cursor' = cursor + 1
    /\ LET item == stdin[cursor + 1]
           parsed == from_str(item.line)
           req == Unwrap(parsed)
       IN  IF item.io = "err"
           THEN /\ stderr' = Append(stderr, <<"E", "r", "r", "o", "r", " ", "r", "e", "a", "d", "i", "n", "g", " ", "s", "t", "d", "i", "n", ":", " ">>)
                /\ UNCHANGED <<stdout, current, pc>>
           ELSE IF item.line.json = "empty"
           THEN UNCHANGED <<stdout, stderr, current, pc>>
           ELSE IF ~IsSome(parsed)
           THEN /\ stdout' = Append(stdout,
                        response_to_string(error(None, -32700, <<"P", "a", "r", "s", "e", " ", "e", "r", "r", "o", "r", ":", " ">>)))
                /\ UNCHANGED <<stderr, current, pc>>
           ELSE IF is_notification(req)
           THEN UNCHANGED <<stdout, stderr, current, pc>>
           ELSE IF calls_tool(req)
           THEN /\ current' = Some(req)
                /\ pc' = "execute"
                /\ UNCHANGED <<stdout, stderr>>
           ELSE /\ stdout' = Append(stdout, response_to_string(handle_request(req)))
                /\ UNCHANGED <<stderr, current, pc>>
    /\ UNCHANGED <<fetchVars, stdin, callbacks>>

\* run_server: tool.execute returned to handle_fetchkit_call or
\* handle_fetchkit_md_call, and the response is written
McpToolReturns ==
    /\ pc = "execute"
    /\ stdout' = Append(stdout,
           response_to_string(tool_response(Unwrap(current), stdin[cursor].execute)))
    /\ current' = None
    /\ pc' = "read"
    /\ UNCHANGED <<fetchVars, stdin, cursor, stderr, callbacks>>

\* run_server: lines() is exhausted and the function returns
McpEnd ==
    /\ pc = "read" /\ cursor = Len(stdin)
    /\ pc' = "done"
    /\ UNCHANGED <<fetchVars, adapterVars>>

McpNext ==
    \/ McpReadLine
    \/ McpToolReturns
    \/ McpEnd

McpSpec == McpInit /\ [][McpNext]_vars

\* the lines taken so far that the loop must have answered: every item but
\* an empty line and a notification
IsEmptyLine(item) == item.io = "ok" /\ item.line.json = "empty"

NoId(line) == line.id \in {"absent", "null"}

IsNotificationLine(item) ==
    /\ item.io = "ok" /\ item.line.json = "object"
    /\ IsSome(from_str(item.line))
    /\ NoId(item.line) /\ starts_with(Unwrap(item.line.method), NOTIFICATIONS)

\* the item is no valid JSON-RPC request: it is not text, not JSON, or lacks
\* the jsonrpc or the method member
NotJsonRpc(item) ==
    \/ item.io = "err"
    \/ item.io = "ok" /\ item.line.json # "empty" /\ ~IsSome(from_str(item.line))

Answered(item) == ~IsEmptyLine(item) /\ ~IsNotificationLine(item)

RECURSIVE AnswersDue(_)
AnswersDue(k) ==
    IF k = 0 THEN 0
    ELSE AnswersDue(k - 1) + (IF Answered(stdin[k]) THEN 1 ELSE 0)

\* the response the claim describes for an answered item
ExpectedShape(item, out) ==
    IF NotJsonRpc(item)
    THEN /\ out.id = "absent" /\ out.result = None
         /\ IsSome(out.error) /\ Unwrap(out.error).code = -32700
    ELSE /\ out.id = (IF NoId(item.line) THEN "absent" ELSE item.line.id)
         /\ (item.line.method = Some(TOOLS_CALL) /\ item.line.params.name \in {FETCHKIT, FETCHKIT_MD}
                /\ IsSome(item.line.params.url) /\ ~item.execute.ok) =>
               /\ out.error = None /\ IsSome(out.result)
               /\ Unwrap(out.result).isError = Some(TRUE)
               /\ contains(Unwrap(out.result).content[1].text, to_string(item.execute.err))

\* the lines whose handling is finished
Handled == IF pc = "execute" THEN cursor - 1 ELSE cursor

\* C39: lines are handled one at a time in input order and every line is
\* answered before the next one is read: after k lines stdout holds one
\* response per line that is neither empty nor a notification, in input
\* order; a line that is no valid JSON-RPC gets an error response with code
\* -32700 and no id, any other request a response with its id, and a failed
\* fetch of tools/call a result with isError = true that contains the error
\* message, never an error object
C39_ResponseDiscipline ==
    entry = "mcp::run_server" =>
        /\ Len(stdout) = AnswersDue(Handled)
        /\ \A k \in 1..Handled :
              Answered(stdin[k]) =>
                  /\ AnswersDue(k) <= Len(stdout)
                  /\ ExpectedShape(stdin[k], stdout[AnswersDue(k)])

-----------------------------------------------------------------------------
(* webfetch tool.rs: Tool::execute_with_status, with the fetch_with_options *)
(* of webfetch client.rs it awaits.                                        *)

\* ToolStatus::new(phase).with_percent(percent)
ToolStatus(phase, percent) ==
    [phase |-> phase, message |-> None, percent_complete |-> Some(percent),
     eta_ms |-> None]

VALIDATE == ToolStatus("validate", 0)
CONNECT == ToolStatus("connect", 10)
FETCH == ToolStatus("fetch", 20)
COMPLETE == ToolStatus("complete", 100)

\* the checks execute_with_status makes after the first callback
tool_validate(req) ==
    IF is_empty(req.url) THEN Some(MissingUrl)
    ELSE IF ~starts_with(req.url, HTTP) /\ ~starts_with(req.url, HTTPS)
    THEN Some(InvalidUrlScheme)
    ELSE None

\* variant: the callbacks before the fetch are issued before the checks
status_before_fetch_unchecked(req) == <<VALIDATE, CONNECT, FETCH>>

\* the callbacks execute_with_status issues before it awaits the fetch
status_before_fetch(req) ==
    IF IsSome(tool_validate(req)) THEN <<VALIDATE>> ELSE <<VALIDATE, CONNECT, FETCH>>

\* the checks of webfetch's fetch_with_options before it builds the client
client_validate(req, opts) ==
    IF is_empty(req.url) THEN Some(MissingUrl)
    ELSE IF ~starts_with(req.url, HTTP) /\ ~starts_with(req.url, HTTPS)
    THEN Some(InvalidUrlScheme)
    ELSE IF /\ ~is_empty(opts.allow_prefixes)
            /\ ~\E i \in 1..Len(opts.allow_prefixes) :
                   starts_with(req.url, opts.allow_prefixes[i])
    THEN Some(BlockedUrl)
    ELSE IF \E i \in 1..Len(opts.block_prefixes) :
                starts_with(req.url, opts.block_prefixes[i])
    THEN Some(BlockedUrl)
    ELSE None

\* webfetch's fetch_with_options panics: the body is converted and the
\* conversion panics
client_panics(req, opts, srv) ==
    /\ ~IsSome(client_validate(req, opts)) /\ srv.connect = "ok"
    /\ effective_method(req) # "HEAD"
    /\ ~(IsSome(srv.content_type) /\ is_binary_content_type(Unwrap(srv.content_type)))
    /\ convert_panics(srv.content_type, from_utf8_lossy(Concat(srv.chunks)), req, opts)

\* what webfetch's fetch_with_options can return for a remote end that sends
\* its whole body
client_fetch(req, opts, srv) ==
    LET content == from_utf8_lossy(Concat(srv.chunks))
        converted == convert(srv.content_type, content, req, opts)
    IN  IF IsSome(client_validate(req, opts))
        THEN {Err(Unwrap(client_validate(req, opts)))}
        ELSE IF srv.connect # "ok"
        THEN {Err(from_reqwest(err)) : err \in send_errors(srv, srv.connect = "silent")}
        ELSE IF effective_method(req) = "HEAD" THEN {Ok(head_response(req, srv))}
        ELSE IF IsSome(srv.content_type) /\ is_binary_content_type(Unwrap(srv.content_type))
        THEN {Ok(binary_response(req, srv))}
        ELSE IF convert_panics(srv.content_type, content, req, opts) THEN {}
        ELSE {Ok([DefaultResponse EXCEPT
                     !.url = req.url, !.status_code = srv.status,
                     !.content_type = srv.content_type,
                     !.size = Some(Len(Concat(srv.chunks))),
                     !.last_modified = srv.last_modified,
                     !.filename = extract_filename(srv.content_disposition, req.url),
                     !.format = Some(converted.format),
                     !.content = Some(filter_excessive_newlines(converted.content))])}

PanicDoc == <<"<", "h", "t", "m", "l", ">", "<", "a", " ">> \o <<"U+304">> \o <<"h", "r", "e", "f", "=", ">">>

\* remote ends: refusing, silent, and sending a plain, an HTML or a panicking
\* HTML document
ToolServers ==
    {[PlainServer EXCEPT !.connect = c] : c \in {"refuse", "silent"}}
    \cup {PlainServer}
    \cup {[PlainServer EXCEPT !.content_type = Some(TEXT_HTML), !.chunks = <<doc>>] :
             doc \in {HtmlDoc, PanicDoc}}

ToolInit ==
    /\ entry = "execute_with_status"
    /\ pc = "tool"
    /\ \E u \in ListUrls, md \in {None, Some(TRUE)}, al \in PrefixLists, bl \in PrefixLists :
          /\ request = [NewRequest(u) EXCEPT !.as_markdown = md]
          /\ options = [FetchDefaults EXCEPT !.allow_prefixes = al, !.block_prefixes = bl]
    /\ server \in ToolServers
    /\ callbacks = <<>>
    /\ fetcherResult = Pending
    /\ outcome = Pending
    /\ stdin = <<>>
    /\ cursor = 0
    /\ current = None
    /\ stdout = <<>>
    /\ stderr = <<>>
    /\ args = None
    /\ returned = None
    /\ fetchers = <<>>
    /\ parsed_url = None
    /\ matchesCalled = <<>>
    /\ fetchCalled = <<>>
    /\ httpSent = <<>>
    /\ now = 0
    /\ clientDeadline = None
    /\ deadline = None
    /\ stream = <<>>
    /\ ready = FALSE
    /\ body = <<>>
    /\ consumed = <<>>
    /\ readerOut = None

toolVars ==
    <<inputVars, callVars, regVars, httpSent, now, clientDeadline, readerVars,
      stdin, cursor, current, stdout, stderr>>

\* execute_with_status from its start to the early return or to the await
ExecuteWithStatus ==
    /\ pc = "tool"
    /\ callbacks' = callbacks \o status_before_fetch(request)
    /\ IF IsSome(tool_validate(request))
       THEN /\ outcome' = Err(Unwrap(tool_validate(request)))
            /\ pc' = "done"
       ELSE /\ pc' = "fetch"
            /\ UNCHANGED outcome
    /\ UNCHANGED <<toolVars, fetcherResult>>

\* `let result = fetch_with_options(req, options).await`
ToolFetchReturns ==
    /\ pc = "fetch"
    /\ IF client_panics(request, options, server)
       THEN pc' = "panicked" /\ UNCHANGED fetcherResult
       ELSE \E r \in client_fetch(request, options, server) :
               pc' = "fetched" /\ fetcherResult' = r
    /\ UNCHANGED <<toolVars, callbacks, outcome>>

\* the last callback and `result`
StatusComplete ==
    /\ pc = "fetched"
    /\ callbacks' = Append(callbacks, COMPLETE)
    /\ outcome' = fetcherResult
    /\ pc' = "done"
    /\ UNCHANGED <<toolVars, fetcherResult>>

ToolNext ==
    \/ ExecuteWithStatus
    \/ ToolFetchReturns
    \/ StatusComplete

ToolSpec == ToolInit /\ [][ToolNext]_vars

\* nothing suspends execute_with_status between the await and its return
ToolFairSpec == ToolSpec /\ WF_vars(StatusComplete)

Phases == <<VALIDATE, CONNECT, FETCH, COMPLETE>>

\* the call was refused by the checks of execute_with_status
RefusedByTool ==
    is_empty(request.url)
        \/ (~starts_with(request.url, HTTP) /\ ~starts_with(request.url, HTTPS))

StatusOrder ==
    entry = "execute_with_status" =>
        /\ Len(callbacks) <= 4 /\ callbacks = SubSeq(Phases, 1, Len(callbacks))
        /\ pc # "tool" => callbacks # <<>>
        /\ (pc = "done" /\ RefusedByTool) =>
              /\ callbacks = <<VALIDATE>>
              /\ outcome \in {Err(MissingUrl), Err(InvalidUrlScheme)}
        /\ (pc \in {"fetch", "fetched", "panicked"}) =>
              ~RefusedByTool /\ callbacks = <<VALIDATE, CONNECT, FETCH>>
        /\ (pc = "done" /\ ~RefusedByTool) =>
              /\ callbacks = Phases
              /\ outcome = fetcherResult
        /\ Len(callbacks) = 4 => fetcherResult # Pending

\* C40: the callbacks of execute_with_status come in the order validate (0),
\* connect (10), fetch (20), complete (100), each at most once; validate is
\* the first; an empty URL or one without an http(s) prefix returns the
\* error after validate alone; otherwise connect and fetch follow, complete
\* is issued only when the fetch has returned Ok or Err, and once it has
\* returned complete is issued and the call returns that result
C40_StatusPhases ==
    /\ []StatusOrder
    /\ (entry = "execute_with_status" /\ pc = "fetched") ~> (pc = "done" /\ callbacks = Phases)

\* a fetch that failed (the URL is on the block-list) still got all four
\* callbacks, the last after the result
C40_Witness ==
    /\ entry = "execute_with_status" /\ pc = "done"
    /\ outcome = Err(BlockedUrl)
    /\ callbacks = Phases

====
